---- MODULE Spec2Model ----
(***************************************************************************)
(* Character-budget pagination of the LangSmith MCP server                 *)
(* (src/src/common/pagination.ts) and the two tools that call it           *)
(* (src/src/services/register-tools.ts).                                   *)
(*                                                                         *)
(* JavaScript strings are modelled by TLA+ strings (Len, \o and SubSeq are *)
(* length, concatenation and slice).  U+2026 (the horizontal ellipsis the  *)
(* code puts in its markers) is one UTF-16 unit that JSON.stringify does   *)
(* not escape; the module writes it "~", a character no modelled input     *)
(* contains.                                                               *)
(***************************************************************************)
EXTENDS Integers, Sequences, FiniteSets, TLC

VARIABLES items, pc, call, ret, pages, listed

vars == <<items, pc, call, ret, pages, listed>>

(***************************************************************************)
(* Bounds of the model.                                                    *)
(***************************************************************************)
\* longest item list handed to the paginator
MaxItems == 3
\* longest list of thread runs the platform holds
MaxRuns == 2
\* calls of the paginator in flight at once
MaxCalls == 2
\* length of the long string field of the modelled items
LongLen == 40
\* length of the padding string of the items that fill a page alone
WideLen == 80
\* length of the shorter string field of the two-run page
MidLen == 24
\* a thirty-second of the length of the key of the untruncatable run
RigidLen == 44

(***************************************************************************)
(* JSON values: the tagged union string / number / boolean / null / array  *)
(* / object.  An object is the sequence of its entries <<key, value>> in   *)
(* insertion order (the order of Object.entries and of JSON.stringify).    *)
(***************************************************************************)
Str(s) == [t |-> "string", v |-> s]
Num(n) == [t |-> "number", v |-> n]
Bool(b) == [t |-> "boolean", v |-> b]
Null == [t |-> "null", v |-> 0]
\* a JavaScript bigint: a value of the platform client, no JSON type
BigInt(n) == [t |-> "bigint", v |-> n]
Arr(xs) == [t |-> "array", v |-> xs]
Obj(es) == [t |-> "object", v |-> es]

Max2(a, b) == IF a >= b THEN a ELSE b
Min2(a, b) == IF a <= b THEN a ELSE b

\* the entries of object o whose key is k (at most one)
Has(o, k) == \E i \in 1..Len(o.v) : o.v[i][1] = k
Get(o, k) == o.v[CHOOSE i \in 1..Len(o.v) : o.v[i][1] = k][2]
\* o[k] = x in JavaScript: an existing key keeps its position, a new one is appended
Set(o, k, x) ==
  IF Has(o, k)
  THEN Obj([i \in 1..Len(o.v) |-> IF o.v[i][1] = k THEN <<k, x>> ELSE o.v[i]])
  ELSE Obj(Append(o.v, <<k, x>>))
\* Object.fromEntries(Object.entries(o).filter(([key]) => key !== k))
Without(o, k) == Obj(SelectSeq(o.v, LAMBDA e : e[1] # k))

(***************************************************************************)
(* Number -> decimal text, as JavaScript prints an integer.                *)
(***************************************************************************)
Digit(d) == SubSeq("0123456789", d + 1, d + 1)

RECURSIVE NatStr(_)
NatStr(n) == IF n < 10 THEN Digit(n) ELSE NatStr(n \div 10) \o Digit(n % 10)

NumStr(n) == IF n < 0 THEN "-" \o NatStr(-n) ELSE NatStr(n)

(***************************************************************************)
(* JSON.stringify(value, replacer, undefined): compact output.  The        *)
(* replacer turns a bigint into its decimal text, which is then written as *)
(* a JSON string.                                                          *)
(***************************************************************************)
EscapeChar(c) ==
  IF c = "\"" THEN "\\\""
  ELSE IF c = "\\" THEN "\\\\"
  ELSE IF c = "\n" THEN "\\n"
  ELSE c

\* the characters lo..hi of s, each escaped (halving keeps the nesting shallow)
RECURSIVE Escape(_, _, _)
Escape(s, lo, hi) ==
  IF lo > hi THEN ""
  ELSE IF lo = hi THEN EscapeChar(SubSeq(s, lo, lo))
  ELSE LET mid == (lo + hi) \div 2
       IN Escape(s, lo, mid) \o Escape(s, mid + 1, hi)

Quote(s) == "\"" \o Escape(s, 1, Len(s)) \o "\""

RECURSIVE Join(_, _)
Join(parts, i) ==
  IF i > Len(parts) THEN ""
  ELSE IF i = Len(parts) THEN parts[i]
  ELSE parts[i] \o "," \o Join(parts, i + 1)

RECURSIVE stringify(_)
stringify(x) ==
  CASE x.t = "string" -> Quote(x.v)
    [] x.t = "number" -> NumStr(x.v)
    [] x.t = "boolean" -> IF x.v THEN "true" ELSE "false"
    [] x.t = "null" -> "null"
    [] x.t = "bigint" -> Quote(NumStr(x.v))
    [] x.t = "array" ->
         "[" \o Join([i \in 1..Len(x.v) |-> stringify(x.v[i])], 1) \o "]"
    [] x.t = "object" ->
         "{" \o Join([i \in 1..Len(x.v) |->
                        Quote(x.v[i][1]) \o ":" \o stringify(x.v[i][2])], 1) \o "}"

(***************************************************************************)
(* pagination.ts                                                           *)
(***************************************************************************)
MAX_RUNS_PER_TRACE == 100

\* "… (+" and " chars)" around the number of elided characters
TruncMarker(n) == "~ (+" \o NumStr(n) \o " chars)"

\* truncateStrings cutting to zero characters when previewChars is 0
RECURSIVE truncateStringsZeroCuts(_, _)
truncateStringsZeroCuts(obj, previewChars) ==
  IF previewChars < 0 THEN obj
  ELSE IF obj.t = "string" THEN
    IF Len(obj.v) <= previewChars THEN obj
    ELSE Str(SubSeq(obj.v, 1, previewChars) \o TruncMarker(Len(obj.v) - previewChars))
  ELSE IF obj.t = "object" THEN
    Obj([i \in 1..Len(obj.v) |->
           <<obj.v[i][1], truncateStringsZeroCuts(obj.v[i][2], previewChars)>>])
  ELSE IF obj.t = "array" THEN
    Arr([i \in 1..Len(obj.v) |-> truncateStringsZeroCuts(obj.v[i], previewChars)])
  ELSE obj

\* truncateStrings shortening the keys of a mapping like its string values
RECURSIVE truncateStringsAndKeys(_, _)
truncateStringsAndKeys(obj, previewChars) ==
  IF previewChars <= 0 THEN obj
  ELSE IF obj.t = "string" THEN
    IF Len(obj.v) <= previewChars THEN obj
    ELSE Str(SubSeq(obj.v, 1, previewChars) \o TruncMarker(Len(obj.v) - previewChars))
  ELSE IF obj.t = "object" THEN
    Obj([i \in 1..Len(obj.v) |->
           <<truncateStringsAndKeys(Str(obj.v[i][1]), previewChars).v,
             truncateStringsAndKeys(obj.v[i][2], previewChars)>>])
  ELSE IF obj.t = "array" THEN
    Arr([i \in 1..Len(obj.v) |-> truncateStringsAndKeys(obj.v[i], previewChars)])
  ELSE obj

RECURSIVE truncateStrings(_, _)
truncateStrings(obj, previewChars) ==
  IF previewChars <= 0 THEN obj
  ELSE IF obj.t = "string" THEN
    IF Len(obj.v) <= previewChars THEN obj
    ELSE Str(SubSeq(obj.v, 1, previewChars) \o TruncMarker(Len(obj.v) - previewChars))
  ELSE IF obj.t = "object" THEN
    Obj([i \in 1..Len(obj.v) |->
           <<obj.v[i][1], truncateStrings(obj.v[i][2], previewChars)>>])
  ELSE IF obj.t = "array" THEN
    Arr([i \in 1..Len(obj.v) |-> truncateStrings(obj.v[i], previewChars)])
  ELSE obj

\* items.map((it) => truncateStrings(it, previewChars))
TruncateAll(xs, previewChars) ==
  [i \in 1..Len(xs) |-> truncateStrings(xs[i], previewChars)]

runCharCount(runDict) == Len(stringify(runDict))

\* every call in the module passes indent = 0, so the output is compact
pageOutputSize(pageDict) == Len(stringify(pageDict))

\* the binary search of lines 94-112: the page rebuilt with the last probed
\* truncation length that fitted, or pageDict itself when none did
RECURSIVE SearchBest(_, _, _, _, _, _)
SearchBest(pageDict, maxCharsPerPage, itemsKey, low, high, bestPageDict) ==
  IF low > high THEN bestPageDict
  ELSE LET mid == (low + high) \div 2
           truncatedItems == TruncateAll(Get(pageDict, itemsKey).v, mid)
           testDict == Set(pageDict, itemsKey, Arr(truncatedItems))
       IN IF pageOutputSize(testDict) <= maxCharsPerPage
          THEN SearchBest(pageDict, maxCharsPerPage, itemsKey, mid + 1, high, testDict)
          ELSE SearchBest(pageDict, maxCharsPerPage, itemsKey, low, mid - 1, bestPageDict)

SearchLow == 0
\* a search starting ten times higher
SearchHighWide == 10 * 100000
SearchHigh == 100000

\* lines 98-112: the iterations of the loop, in order: the interval tested,
\* the length probed and whether the page rebuilt at that length fits
RECURSIVE SearchProbes(_, _, _, _, _)
SearchProbes(pageDict, maxCharsPerPage, itemsKey, low, high) ==
  IF low > high THEN <<>>
  ELSE LET mid == (low + high) \div 2
           truncatedItems == TruncateAll(Get(pageDict, itemsKey).v, mid)
           testDict == Set(pageDict, itemsKey, Arr(truncatedItems))
           fits == pageOutputSize(testDict) <= maxCharsPerPage
       IN <<[low |-> low, high |-> high, mid |-> mid, fits |-> fits]>>
            \o (IF fits
                THEN SearchProbes(pageDict, maxCharsPerPage, itemsKey, mid + 1, high)
                ELSE SearchProbes(pageDict, maxCharsPerPage, itemsKey, low, mid - 1))

TruncatedSuffix == "\n~ (output truncated, exceeded max_chars_per_page)"
TruncatedMessage == "Page exceeded character budget; content truncated."
PreviewOverhead == 1000
PreviewFloor == 100

\* previewMax without the floor of 100 characters
previewMaxNoFloor(maxCharsPerPage) ==
  Max2(0, (maxCharsPerPage - Len(TruncatedSuffix) - PreviewOverhead) \div 2)

\* Math.max(100, (maxCharsPerPage - suffix.length - overhead) / 2), as slice()
\* uses it: the fraction of an odd numerator is dropped
previewMax(maxCharsPerPage) ==
  Max2(PreviewFloor, (maxCharsPerPage - Len(TruncatedSuffix) - PreviewOverhead) \div 2)

\* DegradedPage counting the pages of the empty item list it returns
DegradedPageNoTotal(pageDict, bestPageDict, maxCharsPerPage, itemsKey) ==
  LET jsonStr == stringify(bestPageDict)
      truncatedPreview ==
        SubSeq(jsonStr, 1, Min2(Len(jsonStr), previewMax(maxCharsPerPage)))
          \o TruncatedSuffix
      d0 == Without(pageDict, itemsKey)
      d1 == Set(d0, itemsKey, Arr(<<>>))
      d2 == Set(d1, "page_number", Get(pageDict, "page_number"))
      d3 == Set(d2, "total_pages", Num(0))
      d4 == Set(d3, "max_chars_per_page", Num(maxCharsPerPage))
      d5 == Set(d4, "preview_chars",
                IF Has(pageDict, "preview_chars")
                THEN Get(pageDict, "preview_chars") ELSE Num(0))
      d6 == Set(d5, "_truncated", Bool(TRUE))
      d7 == Set(d6, "_truncated_message", Str(TruncatedMessage))
  IN Set(d7, "_truncated_preview", Str(truncatedPreview))

\* lines 116-139: the page returned when no probed truncation length fitted
DegradedPage(pageDict, bestPageDict, maxCharsPerPage, itemsKey) ==
  LET jsonStr == stringify(bestPageDict)
      truncatedPreview ==
        SubSeq(jsonStr, 1, Min2(Len(jsonStr), previewMax(maxCharsPerPage)))
          \o TruncatedSuffix
      d0 == Without(pageDict, itemsKey)
      d1 == Set(d0, itemsKey, Arr(<<>>))
      d2 == Set(d1, "page_number", Get(pageDict, "page_number"))
      d3 == Set(d2, "total_pages", Get(pageDict, "total_pages"))
      d4 == Set(d3, "max_chars_per_page", Num(maxCharsPerPage))
      d5 == Set(d4, "preview_chars",
                IF Has(pageDict, "preview_chars")
                THEN Get(pageDict, "preview_chars") ELSE Num(0))
      d6 == Set(d5, "_truncated", Bool(TRUE))
      d7 == Set(d6, "_truncated_message", Str(TruncatedMessage))
  IN Set(d7, "_truncated_preview", Str(truncatedPreview))

\* enforcePageCharBudget returning the best page of the search, fitting or not
enforcePageCharBudgetNoDegrade(pageDict, maxCharsPerPage, itemsKey) ==
  IF pageOutputSize(pageDict) <= maxCharsPerPage THEN pageDict
  ELSE IF Len(Get(pageDict, itemsKey).v) = 0 THEN pageDict
  ELSE SearchBest(pageDict, maxCharsPerPage, itemsKey, SearchLow, SearchHigh, pageDict)

\* enforcePageCharBudget cutting every item to one character before it tests
\* the size of the page
enforcePageCharBudgetCutsFirst(pageDict, maxCharsPerPage, itemsKey) ==
  LET cut == Set(pageDict, itemsKey, Arr(TruncateAll(Get(pageDict, itemsKey).v, 1)))
  IN IF pageOutputSize(cut) <= maxCharsPerPage THEN cut
     ELSE IF Len(Get(cut, itemsKey).v) = 0 THEN cut
     ELSE LET bestPageDict ==
                SearchBest(cut, maxCharsPerPage, itemsKey, SearchLow, SearchHigh, cut)
          IN IF pageOutputSize(bestPageDict) > maxCharsPerPage
             THEN DegradedPage(cut, bestPageDict, maxCharsPerPage, itemsKey)
             ELSE bestPageDict

enforcePageCharBudget(pageDict, maxCharsPerPage, itemsKey) ==
  IF pageOutputSize(pageDict) <= maxCharsPerPage THEN pageDict
  ELSE IF Len(Get(pageDict, itemsKey).v) = 0 THEN pageDict
  ELSE LET bestPageDict ==
             SearchBest(pageDict, maxCharsPerPage, itemsKey,
                        SearchLow, SearchHigh, pageDict)
       IN IF pageOutputSize(bestPageDict) > maxCharsPerPage
          THEN DegradedPage(pageDict, bestPageDict, maxCharsPerPage, itemsKey)
          ELSE bestPageDict

\* PackFrom with the run that closes a page lost instead of opening the next page
RECURSIVE PackFromDrop(_, _, _, _, _, _)
PackFromDrop(runsDict, maxCharsPerPage, i, pgs, currentPage, currentChars) ==
  IF i > Len(runsDict)
  THEN IF Len(currentPage) > 0 THEN Append(pgs, currentPage) ELSE pgs
  ELSE LET run == runsDict[i]
           runChars == runCharCount(run)
       IN IF currentChars + runChars > maxCharsPerPage /\ Len(currentPage) > 0
          THEN PackFromDrop(runsDict, maxCharsPerPage, i + 1,
                            Append(pgs, currentPage), <<>>, 0)
          ELSE PackFromDrop(runsDict, maxCharsPerPage, i + 1,
                            pgs, Append(currentPage, run), currentChars + runChars)

\* PackFrom without the final push of the page being filled
RECURSIVE PackFromNoFlush(_, _, _, _, _, _)
PackFromNoFlush(runsDict, maxCharsPerPage, i, pgs, currentPage, currentChars) ==
  IF i > Len(runsDict) THEN pgs
  ELSE LET run == runsDict[i]
           runChars == runCharCount(run)
       IN IF currentChars + runChars > maxCharsPerPage /\ Len(currentPage) > 0
          THEN PackFromNoFlush(runsDict, maxCharsPerPage, i + 1,
                               Append(pgs, currentPage), <<run>>, runChars)
          ELSE PackFromNoFlush(runsDict, maxCharsPerPage, i + 1,
                               pgs, Append(currentPage, run), currentChars + runChars)

\* PackFrom closing the page on the budget alone, also when the page is empty
RECURSIVE PackFromNoGuard(_, _, _, _, _, _)
PackFromNoGuard(runsDict, maxCharsPerPage, i, pgs, currentPage, currentChars) ==
  IF i > Len(runsDict)
  THEN IF Len(currentPage) > 0 THEN Append(pgs, currentPage) ELSE pgs
  ELSE LET run == runsDict[i]
           runChars == runCharCount(run)
       IN IF currentChars + runChars > maxCharsPerPage
          THEN PackFromNoGuard(runsDict, maxCharsPerPage, i + 1,
                               Append(pgs, currentPage), <<run>>, runChars)
          ELSE PackFromNoGuard(runsDict, maxCharsPerPage, i + 1,
                               pgs, Append(currentPage, run), currentChars + runChars)

\* PackFrom with || for && in the test that closes a page
RECURSIVE PackFromOr(_, _, _, _, _, _)
PackFromOr(runsDict, maxCharsPerPage, i, pgs, currentPage, currentChars) ==
  IF i > Len(runsDict)
  THEN IF Len(currentPage) > 0 THEN Append(pgs, currentPage) ELSE pgs
  ELSE LET run == runsDict[i]
           runChars == runCharCount(run)
       IN IF currentChars + runChars > maxCharsPerPage \/ Len(currentPage) > 0
          THEN PackFromOr(runsDict, maxCharsPerPage, i + 1,
                          Append(pgs, currentPage), <<run>>, runChars)
          ELSE PackFromOr(runsDict, maxCharsPerPage, i + 1,
                          pgs, Append(currentPage, run), currentChars + runChars)

\* the loop of lines 161-170, from item i on
RECURSIVE PackFrom(_, _, _, _, _, _)
PackFrom(runsDict, maxCharsPerPage, i, pgs, currentPage, currentChars) ==
  IF i > Len(runsDict)
  THEN IF Len(currentPage) > 0 THEN Append(pgs, currentPage) ELSE pgs
  ELSE LET run == runsDict[i]
           runChars == runCharCount(run)
       IN IF currentChars + runChars > maxCharsPerPage /\ Len(currentPage) > 0
          THEN PackFrom(runsDict, maxCharsPerPage, i + 1,
                        Append(pgs, currentPage), <<run>>, runChars)
          ELSE PackFrom(runsDict, maxCharsPerPage, i + 1,
                        pgs, Append(currentPage, run), currentChars + runChars)

buildPagesByCharBudget(runsDict, maxCharsPerPage) ==
  IF Len(runsDict) = 0 THEN <<>>
  ELSE PackFrom(runsDict, maxCharsPerPage, 1, <<>>, <<>>, 0)

\* lines 196-200 and 233-237: the preview pass over every item
PreviewPass(xs, previewChars) ==
  IF previewChars > 0 THEN TruncateAll(xs, previewChars) ELSE xs

\* PageEnvelope reporting the budget under a ceiling of 30000
PageEnvelopeClamped(itemsKey, pageRuns, pageNumber, totalPages, maxCharsPerPage, previewChars) ==
  Obj(<< <<itemsKey, Arr(pageRuns)>>,
         <<"page_number", Num(pageNumber)>>,
         <<"total_pages", Num(totalPages)>>,
         <<"max_chars_per_page", Num(Min2(maxCharsPerPage, 30000))>>,
         <<"preview_chars", Num(previewChars)>> >>)

\* lines 212-218 and 249-255: the page before budget enforcement
PageEnvelope(itemsKey, pageRuns, pageNumber, totalPages, maxCharsPerPage, previewChars) ==
  Obj(<< <<itemsKey, Arr(pageRuns)>>,
         <<"page_number", Num(pageNumber)>>,
         <<"total_pages", Num(totalPages)>>,
         <<"max_chars_per_page", Num(maxCharsPerPage)>>,
         <<"preview_chars", Num(previewChars)>> >>)

\* SelectPage giving the last page for a page number past the end
SelectPageClamp(pgs, pageNumber) ==
  IF pageNumber < 1 \/ Len(pgs) = 0 THEN <<>>
  ELSE IF pageNumber > Len(pgs) THEN pgs[Len(pgs)]
  ELSE pgs[pageNumber]

\* SelectPage indexing the page list with the 1-based page number as it is
SelectPageZeroBased(pgs, pageNumber) ==
  IF pageNumber < 1 \/ pageNumber > Len(pgs) THEN <<>>
  ELSE IF pageNumber + 1 > Len(pgs) THEN <<>>
  ELSE pgs[pageNumber + 1]

\* lines 205-210: the items of the requested page, none when out of range
SelectPage(pgs, pageNumber) ==
  IF pageNumber < 1 \/ pageNumber > Len(pgs) THEN <<>> ELSE pgs[pageNumber]

\* Paginate with the ceiling of the tool layer applied inside
PaginateClamped(itemsKey, xs, pageNumber, maxCharsPerPage, previewChars) ==
  LET budget == Min2(maxCharsPerPage, 30000)
      runsDict == PreviewPass(xs, previewChars)
      pgs == buildPagesByCharBudget(runsDict, budget)
      out == PageEnvelope(itemsKey, SelectPage(pgs, pageNumber), pageNumber,
                          Len(pgs), budget, previewChars)
  IN enforcePageCharBudget(out, budget, itemsKey)

\* lines 196-220 and 233-257: the two paginators differ in the items key only
Paginate(itemsKey, xs, pageNumber, maxCharsPerPage, previewChars) ==
  LET runsDict == PreviewPass(xs, previewChars)
      pgs == buildPagesByCharBudget(runsDict, maxCharsPerPage)
      totalPages == Len(pgs)
      pageRuns == SelectPage(pgs, pageNumber)
      out == PageEnvelope(itemsKey, pageRuns, pageNumber, totalPages,
                          maxCharsPerPage, previewChars)
  IN enforcePageCharBudget(out, maxCharsPerPage, itemsKey)

paginateRuns(runsDict, pageNumber, maxCharsPerPage, previewChars) ==
  Paginate("runs", runsDict, pageNumber, maxCharsPerPage, previewChars)

\* paginateMessages keeping the key of paginateRuns
paginateMessagesRunsKey(messagesDict, pageNumber, maxCharsPerPage, previewChars) ==
  Paginate("runs", messagesDict, pageNumber, maxCharsPerPage, previewChars)

paginateMessages(messagesDict, pageNumber, maxCharsPerPage, previewChars) ==
  Paginate("result", messagesDict, pageNumber, maxCharsPerPage, previewChars)

(***************************************************************************)
(* helpers.ts and register-tools.ts: the two paginated tools               *)
(***************************************************************************)
LANGSMITH_LIST_RUNS_MAX_LIMIT == 100
MAX_CHARS_PER_PAGE_TRACE == 30000
DefaultMaxCharsPerPage == 25000
DefaultPreviewChars == 150

\* Date values are ISO strings already in the modelled runs; a bigint becomes
\* its decimal text
RECURSIVE convertToSerializable(_)
convertToSerializable(obj) ==
  IF obj.t = "bigint" THEN Str(NumStr(obj.v))
  ELSE IF obj.t = "array" THEN
    Arr([i \in 1..Len(obj.v) |-> convertToSerializable(obj.v[i])])
  ELSE IF obj.t = "object" THEN
    Obj([i \in 1..Len(obj.v) |->
           <<obj.v[i][1], convertToSerializable(obj.v[i][2])>>])
  ELSE obj

\* for await (const run of client.listRuns({..., limit})): the first `limit`
\* runs the platform holds, each made serializable
ListRuns(stored, limit) ==
  [i \in 1..Min2(limit, Len(stored)) |-> convertToSerializable(stored[i])]

IsObject(x) == x.t = "object"

messagesFromRun(run) ==
  LET fromInputs ==
        IF Has(run, "inputs") /\ IsObject(Get(run, "inputs"))
           /\ Has(Get(run, "inputs"), "messages")
           /\ Get(Get(run, "inputs"), "messages").t = "array"
        THEN Get(Get(run, "inputs"), "messages").v ELSE <<>>
      outputs == IF Has(run, "outputs") THEN Get(run, "outputs") ELSE Null
      fromOutputs ==
        IF ~IsObject(outputs) THEN <<>>
        ELSE IF Has(outputs, "choices") /\ Get(outputs, "choices").t = "array"
        THEN LET choices == Get(outputs, "choices").v
             IN IF Len(choices) > 0 /\ IsObject(choices[1]) /\ Has(choices[1], "message")
                THEN <<Get(choices[1], "message")>> ELSE <<>>
        ELSE IF Has(outputs, "message") THEN <<Get(outputs, "message")>>
        ELSE <<>>
  IN fromInputs \o fromOutputs

\* String(run.start_time ?? "")
StartTime(run) ==
  IF ~Has(run, "start_time") \/ Get(run, "start_time").t = "null" THEN ""
  ELSE IF Get(run, "start_time").t = "string" THEN Get(run, "start_time").v
  ELSE IF Get(run, "start_time").t = "number" THEN NumStr(Get(run, "start_time").v)
  ELSE IF Get(run, "start_time").t = "bool" THEN stringify(Get(run, "start_time"))
  ELSE "[object Object]"

\* a.localeCompare(b) < 0, for the timestamps of the model (digits and "-")
CharRank(c) == CHOOSE i \in 1..11 : SubSeq("-0123456789", i, i) = c

RECURSIVE StrLess(_, _, _)
StrLess(a, b, i) ==
  IF i > Len(b) THEN FALSE
  ELSE IF i > Len(a) THEN TRUE
  ELSE IF CharRank(SubSeq(a, i, i)) # CharRank(SubSeq(b, i, i))
  THEN CharRank(SubSeq(a, i, i)) < CharRank(SubSeq(b, i, i))
  ELSE StrLess(a, b, i + 1)

\* InsertRun with the comparison turned round: latest first
RECURSIVE InsertRunDescending(_, _)
InsertRunDescending(sorted, run) ==
  IF Len(sorted) = 0 THEN <<run>>
  ELSE IF StrLess(StartTime(sorted[Len(sorted)]), StartTime(run), 1)
  THEN Append(InsertRunDescending(SubSeq(sorted, 1, Len(sorted) - 1), run),
              sorted[Len(sorted)])
  ELSE Append(sorted, run)

\* Array.prototype.sort is stable: insert each run after the runs that do
\* not start later
RECURSIVE InsertRun(_, _)
InsertRun(sorted, run) ==
  IF Len(sorted) = 0 THEN <<run>>
  ELSE IF StrLess(StartTime(run), StartTime(sorted[Len(sorted)]), 1)
  THEN Append(InsertRun(SubSeq(sorted, 1, Len(sorted) - 1), run), sorted[Len(sorted)])
  ELSE Append(sorted, run)

RECURSIVE SortRuns(_, _)
SortRuns(runs, n) ==
  IF n = 0 THEN <<>> ELSE InsertRun(SortRuns(runs, n - 1), runs[n])

RECURSIVE AllMessages(_, _)
AllMessages(runs, i) ==
  IF i > Len(runs) THEN <<>>
  ELSE messagesFromRun(runs[i]) \o AllMessages(runs, i + 1)

ErrorResult(msg) == Obj(<< <<"error", Str(msg)>> >>)

\* args.hasMax / args.hasPreview say whether the caller gave the argument;
\* an omitted argument takes the parameter's default
getThreadHistoryTool(stored, pageNumber, hasMax, maxArg, hasPreview, previewArg) ==
  LET maxCharsPerPage ==
        Min2(IF hasMax THEN maxArg ELSE DefaultMaxCharsPerPage,
             MAX_CHARS_PER_PAGE_TRACE)
      previewChars == IF hasPreview THEN previewArg ELSE DefaultPreviewChars
      runs == ListRuns(stored, LANGSMITH_LIST_RUNS_MAX_LIMIT)
      sorted == SortRuns(runs, Len(runs))
      allMessages == AllMessages(sorted, 1)
  IN IF Len(runs) = 0 THEN ErrorResult("No runs found for thread")
     ELSE IF Len(allMessages) = 0 THEN ErrorResult("No messages found in the runs for thread")
     ELSE paginateMessages(allMessages, pageNumber, maxCharsPerPage, previewChars)

\* fetchRunsTool handing the requested budget to the paginator as it is
fetchRunsToolUncapped(stored, hasPage, pageArg, hasMax, maxArg, hasPreview, previewArg, hasLimit, limitArg) ==
  LET lim == Min2(IF hasLimit THEN limitArg ELSE 100, 100)
  IN paginateRuns(ListRuns(stored, lim),
                  IF hasPage THEN pageArg ELSE 1,
                  IF hasMax THEN maxArg ELSE 25000,
                  IF hasPreview THEN previewArg ELSE 150)

\* cappedLimit handing the requested limit to listRuns as it is
cappedLimitAsGiven(hasLimit, limitArg) ==
  IF hasLimit THEN limitArg ELSE LANGSMITH_LIST_RUNS_MAX_LIMIT

cappedLimit(hasLimit, limitArg) ==
  Min2(IF hasLimit THEN limitArg ELSE LANGSMITH_LIST_RUNS_MAX_LIMIT,
       LANGSMITH_LIST_RUNS_MAX_LIMIT)

fetchRunsTool(stored, hasPage, pageArg, hasMax, maxArg, hasPreview, previewArg, hasLimit, limitArg) ==
  LET pageNumber == IF hasPage THEN pageArg ELSE 1
      previewChars == IF hasPreview THEN previewArg ELSE DefaultPreviewChars
      maxCharsPerPage ==
        Min2(IF hasMax THEN maxArg ELSE DefaultMaxCharsPerPage,
             MAX_CHARS_PER_PAGE_TRACE)
      runsDict == ListRuns(stored, cappedLimit(hasLimit, limitArg))
  IN paginateRuns(runsDict, pageNumber, maxCharsPerPage, previewChars)

(***************************************************************************)
(* Handlers of register-tools.ts and the tool functions they call.  A      *)
(* thrown value is a record: kind "Error" with its message, kind "string"  *)
(* for a thrown string, kind "none" when nothing is thrown.  What a tool   *)
(* function does is an outcome: the value it returns or the value it       *)
(* throws, with whether it called the client's list method.                *)
(***************************************************************************)
NoThrow == [kind |-> "none", message |-> "", v |-> ""]
ThrownError(msg) == [kind |-> "Error", message |-> msg, v |-> ""]
ThrownString(str) == [kind |-> "string", message |-> "", v |-> str]

\* e instanceof Error ? e.message : String(e)
MessageOf(e) == IF e.kind = "Error" THEN e.message ELSE e.v

Returned(v, didList) == [threw |-> FALSE, v |-> v, e |-> NoThrow, listed |-> didList]
Threw(e, didList) == [threw |-> TRUE, v |-> Null, e |-> e, listed |-> didList]

\* toolResult: { content: [{ type: "text", text: JSON.stringify(data) }] }
toolResult(data) ==
  Obj(<< <<"content", Arr(<< Obj(<< <<"type", Str("text")>>,
                                    <<"text", Str(stringify(data))>> >>) >>)>> >>)

\* toolError without the isError flag
toolErrorUnflagged(message) ==
  Obj(<< <<"content", Arr(<< Obj(<< <<"type", Str("text")>>,
           <<"text", Str(stringify(Obj(<< <<"error", Str(message)>> >>)))>> >>) >>)>> >>)

\* toolError: the same with { error: message } and isError: true
toolError(message) ==
  Obj(<< <<"content", Arr(<< Obj(<< <<"type", Str("text")>>,
           <<"text", Str(stringify(Obj(<< <<"error", Str(message)>> >>)))>> >>) >>)>>,
         <<"isError", Bool(TRUE)>> >>)

\* the first items the loop `if (count >= limit) break` lets through
FirstUpTo(xs, limit) == SubSeq(xs, 1, Min2(Max2(limit, 0), Len(xs)))

\* the attributes of a prompt that listPromptsTool copies, in its order;
\* an attribute the prompt lacks is undefined and JSON.stringify leaves it out
PromptAttrs ==
  <<"repo_handle", "description", "id", "is_public", "tags", "owner",
    "full_name", "num_likes", "num_downloads", "num_views">>

\* JavaScript truthiness of a JSON value
Truthy(x) ==
  CASE x.t = "string" -> x.v # ""
    [] x.t = "number" -> x.v # 0
    [] x.t = "boolean" -> x.v
    [] x.t = "null" -> FALSE
    [] OTHER -> TRUE

\* String(x) of a string or an integer
StringOf(x) == IF x.t = "string" THEN x.v ELSE NumStr(x.v)

promptDict(prompt) ==
  LET copied == SelectSeq([i \in 1..Len(PromptAttrs) |->
                             <<PromptAttrs[i],
                               IF Has(prompt, PromptAttrs[i])
                               THEN Get(prompt, PromptAttrs[i]) ELSE Null,
                               Has(prompt, PromptAttrs[i])>>],
                          LAMBDA e : e[3])
      plain == [i \in 1..Len(copied) |-> <<copied[i][1], copied[i][2]>>]
      stamp(k) == IF Has(prompt, k) /\ Truthy(Get(prompt, k))
                  THEN << <<k, Str(StringOf(Get(prompt, k)))>> >> ELSE <<>>
  IN Obj(plain \o stamp("created_at") \o stamp("updated_at"))

\* prompts.ts 15-71: every failure of the SDK is caught and returned
listPromptsTool(sdk, stored, limit) ==
  IF sdk.kind # "none"
  THEN Returned(Obj(<< <<"error", Str("Error fetching prompts: " \o MessageOf(sdk))>> >>), TRUE)
  ELSE LET taken == FirstUpTo(stored, limit)
           formattedPrompts == [i \in 1..Len(taken) |-> promptDict(taken[i])]
       IN Returned(Obj(<< <<"prompts", Arr(formattedPrompts)>>,
                          <<"total_count", Num(Len(formattedPrompts))>> >>), TRUE)

\* register-tools.ts 911-965: getThreadHistoryTool with its own catch
getThreadHistoryOutcome(sdk, stored, pageNumber) ==
  IF sdk.kind # "none"
  THEN Returned(Obj(<< <<"error", Str("Error fetching thread history: " \o MessageOf(sdk))>> >>), TRUE)
  ELSE Returned(getThreadHistoryTool(stored, pageNumber, FALSE, 0, FALSE, 0), TRUE)

\* register-tools.ts 1084-1152: fetchRunsTool has no catch of its own
fetchRunsOutcome(sdk, stored, hasLimit, limitArg) ==
  IF sdk.kind # "none" THEN Threw(sdk, TRUE)
  ELSE Returned(fetchRunsTool(stored, FALSE, 0, FALSE, 0, FALSE, 0, hasLimit, limitArg), TRUE)

\* helpers.ts 107-130: depth-first search of a key; found says whether the
\* result is something other than undefined
RECURSIVE findInDict(_, _)
RECURSIVE FindInValues(_, _, _)
findInDict(data, key) ==
  IF data.t = "object" THEN
    IF Has(data, key) THEN [found |-> TRUE, v |-> Get(data, key)]
    ELSE FindInValues([i \in 1..Len(data.v) |-> data.v[i][2]], key, 1)
  ELSE IF data.t = "array" THEN FindInValues(data.v, key, 1)
  ELSE [found |-> FALSE, v |-> Null]
FindInValues(xs, key, i) ==
  IF i > Len(xs) THEN [found |-> FALSE, v |-> Null]
  ELSE LET result == findInDict(xs[i], key)
       IN IF result.found THEN result ELSE FindInValues(xs, key, i + 1)

\* experiments.ts 59-103: the simplified project; x ?? null and the fields
\* added only when the project has them
simpleProject(project) ==
  LET orNull(k) == IF Has(project, k) THEN Get(project, k) ELSE Null
      projectId == orNull("id")
      present(k) == Has(project, k) /\ Get(project, k).t # "null"
      numberField(k, as) == IF present(k) THEN << <<as, Get(project, k)>> >> ELSE <<>>
      deploymentId == findInDict(project, "deployment_id")
  IN Obj(<< <<"name", orNull("name")>>,
            <<"experiment_id",
              IF projectId.t # "null" THEN Str(StringOf(projectId)) ELSE Null>>,
            <<"feedback_stats", orNull("feedback_stats")>> >>
         \o numberField("latency_p50", "latency_p50_seconds")
         \o numberField("latency_p99", "latency_p99_seconds")
         \o numberField("total_cost", "total_cost")
         \o numberField("prompt_cost", "prompt_cost")
         \o numberField("completion_cost", "completion_cost")
         \o (IF deploymentId.found /\ Truthy(deploymentId.v)
             THEN << <<"agent_deployment_id", deploymentId.v>> >> ELSE <<>>))

\* listExperimentsTool listing whatever selectors it is given
listExperimentsToolUnchecked(sdk, stored, hasId, hasName, limit) ==
  IF sdk.kind # "none" THEN Threw(sdk, TRUE)
  ELSE LET projects == [i \in 1..Len(FirstUpTo(stored, limit)) |->
                          convertToSerializable(stored[i])]
       IN Returned(Obj(<< <<"experiments",
                            Arr([i \in 1..Len(projects) |-> simpleProject(projects[i])])>> >>),
                   TRUE)

\* experiments.ts 15-105: the two validation errors are thrown before
\* client.listProjects is called; nothing is caught
listExperimentsTool(sdk, stored, hasId, hasName, limit) ==
  IF ~hasId /\ ~hasName
  THEN Threw(ThrownError("Either 'reference_dataset_id' or 'reference_dataset_name' must be provided"), FALSE)
  ELSE IF hasId /\ hasName
  THEN Threw(ThrownError("Cannot provide both 'reference_dataset_id' and 'reference_dataset_name'. Please provide only one."), FALSE)
  ELSE IF sdk.kind # "none" THEN Threw(sdk, TRUE)
  ELSE LET projects == [i \in 1..Len(FirstUpTo(stored, limit)) |->
                          convertToSerializable(stored[i])]
       IN Returned(Obj(<< <<"experiments",
                            Arr([i \in 1..Len(projects) |-> simpleProject(projects[i])])>> >>),
                   TRUE)

\* what the tool function of the handler does with the arguments c
ToolOutcome(stored, c) ==
  CASE c.tool = "list_prompts" -> listPromptsTool(c.sdkThrow, stored, c.limit)
    [] c.tool = "get_thread_history" -> getThreadHistoryOutcome(c.sdkThrow, stored, 1)
    [] c.tool = "fetch_runs" -> fetchRunsOutcome(c.sdkThrow, stored, TRUE, c.limit)
    [] c.tool = "list_experiments" ->
         listExperimentsTool(c.sdkThrow, stored, c.hasId, c.hasName, c.limit)

\* the handler every tool shares: try { client; tool; toolResult } catch { toolError }
Handler(stored, c) ==
  IF c.clientThrow.kind # "none" THEN toolError(MessageOf(c.clientThrow))
  ELSE LET out == ToolOutcome(stored, c)
       IN IF out.threw THEN toolError(MessageOf(out.e)) ELSE toolResult(out.v)

(***************************************************************************)
(* tools/usage.ts: billing usage with workspace names, over REST.          *)
(***************************************************************************)
UuidLength == 36
UuidDashes == 4

\* String.prototype.trim, for the white space of the model (spaces)
RECURSIVE TrimStart(_)
TrimStart(str) ==
  IF Len(str) > 0 /\ SubSeq(str, 1, 1) = " " THEN TrimStart(SubSeq(str, 2, Len(str)))
  ELSE str
RECURSIVE TrimEnd(_)
TrimEnd(str) ==
  IF Len(str) > 0 /\ SubSeq(str, Len(str), Len(str)) = " "
  THEN TrimEnd(SubSeq(str, 1, Len(str) - 1))
  ELSE str
Trim(str) == TrimEnd(TrimStart(str))

\* String.prototype.toLowerCase, letter by letter
UpperLetters == "ABCDEFGHIJKLMNOPQRSTUVWXYZ"
LowerLetters == "abcdefghijklmnopqrstuvwxyz"
LowerChar(c) ==
  IF \E i \in 1..Len(UpperLetters) : SubSeq(UpperLetters, i, i) = c
  THEN LET i == CHOOSE i \in 1..Len(UpperLetters) : SubSeq(UpperLetters, i, i) = c
       IN SubSeq(LowerLetters, i, i)
  ELSE c
RECURSIVE toLowerCase(_)
toLowerCase(str) ==
  IF Len(str) = 0 THEN ""
  ELSE LowerChar(SubSeq(str, 1, 1)) \o toLowerCase(SubSeq(str, 2, Len(str)))

\* (trimmed.match(/-/g) || []).length
RECURSIVE CountDashes(_)
CountDashes(str) ==
  IF Len(str) = 0 THEN 0
  ELSE (IF SubSeq(str, 1, 1) = "-" THEN 1 ELSE 0) + CountDashes(SubSeq(str, 2, Len(str)))

\* request(): the parsed body of the response, or {error} when the request
\* fails or the status is not ok
RequestError == Obj(<< <<"error", Str("HTTP 403: Forbidden")>> >>)

\* GET /api/v1/orgs/current/billing/usage
BillingResponse(platform, mode) ==
  CASE mode = "error" -> RequestError
    [] mode = "object" -> Obj(<< <<"usage", Arr(platform.usage)>> >>)
    [] mode = "empty" -> Arr(<<>>)
    [] OTHER -> Arr(platform.usage)

\* GET /api/v1/workspaces
listWorkspaces(platform, mode) ==
  CASE mode = "error" -> RequestError
    [] mode = "wrapped" -> Obj(<< <<"workspaces", Arr(platform.workspaces)>> >>)
    [] OTHER -> Arr(platform.workspaces)

\* GET /api/v1/workspaces/{id}: the workspace of that id, if the platform
\* holds one and the request goes through
getWorkspaceById(platform, mode, workspaceId) ==
  LET found == SelectSeq(platform.workspaces,
                 LAMBDA w : Has(w, "id") /\ Get(w, "id") = Str(workspaceId))
  IN IF mode = "error" \/ Len(found) = 0 THEN RequestError ELSE found[1]

\* (w.display_name as string) || (w.name as string) || fallback
NameOf(w, fallback) ==
  IF Has(w, "display_name") /\ Truthy(Get(w, "display_name"))
  THEN Get(w, "display_name").v
  ELSE IF Has(w, "name") /\ Truthy(Get(w, "name")) THEN Get(w, "name").v
  ELSE fallback

\* the objects of the workspace list of a response, none when it is an error
WorkspacesOf(wsResp) ==
  LET listOf ==
        IF wsResp.t = "array" THEN wsResp.v
        ELSE IF wsResp.t = "object" /\ ~Has(wsResp, "error")
        THEN IF Has(wsResp, "workspaces") /\ Truthy(Get(wsResp, "workspaces"))
             THEN Get(wsResp, "workspaces").v
             ELSE IF Has(wsResp, "items") /\ Truthy(Get(wsResp, "items"))
             THEN Get(wsResp, "items").v
             ELSE <<>>
        ELSE <<>>
  IN SelectSeq(listOf, LAMBDA w : w.t = "object")

\* lines 116-129: the first workspace whose id is the argument or whose name
\* is the argument up to case
RECURSIVE FindWorkspace(_, _, _)
FindWorkspace(workspaces, trimmed, i) ==
  IF i > Len(workspaces) THEN Obj(<<>>)
  ELSE LET w == workspaces[i]
       IN IF ~(Has(w, "id") /\ Truthy(Get(w, "id")))
          THEN FindWorkspace(workspaces, trimmed, i + 1)
          ELSE LET wid == StringOf(Get(w, "id"))
                   name == NameOf(w, wid)
               IN IF wid = trimmed \/ toLowerCase(name) = toLowerCase(trimmed)
                  THEN Obj(<< <<wid, Str(name)>> >>)
                  ELSE FindWorkspace(workspaces, trimmed, i + 1)

\* lines 154-158: every workspace with an id, by id
RECURSIVE AllWorkspaces(_, _, _)
AllWorkspaces(workspaces, i, idToName) ==
  IF i > Len(workspaces) THEN idToName
  ELSE LET w == workspaces[i]
       IN IF ~(Has(w, "id") /\ Truthy(Get(w, "id")))
          THEN AllWorkspaces(workspaces, i + 1, idToName)
          ELSE LET wid == StringOf(Get(w, "id"))
               IN AllWorkspaces(workspaces, i + 1,
                                Set(idToName, wid, Str(NameOf(w, wid))))

\* the map from workspace id to name: of the one workspace asked for, or of all
buildWorkspaceIdToName(platform, c, hasWorkspace, singleWorkspace) ==
  IF hasWorkspace /\ singleWorkspace # ""
  THEN LET trimmed == Trim(singleWorkspace)
           looksLikeUuid == Len(trimmed) = UuidLength /\ CountDashes(trimmed) = UuidDashes
           resp == IF looksLikeUuid THEN getWorkspaceById(platform, c.byId, trimmed)
                   ELSE RequestError
       IN IF looksLikeUuid /\ ~Has(resp, "error")
             /\ Has(resp, "id") /\ Truthy(Get(resp, "id"))
          THEN Obj(<< <<StringOf(Get(resp, "id")), Str(NameOf(resp, trimmed))>> >>)
          ELSE FindWorkspace(WorkspacesOf(listWorkspaces(platform, c.list)), trimmed, 1)
  ELSE AllWorkspaces(WorkspacesOf(listWorkspaces(platform, c.list)), 1, Obj(<<>>))

\* lines 180-185: the groups of one metric, named and filtered
RECURSIVE NewGroups(_, _, _, _, _)
NewGroups(groups, workspaceIdToName, hasOnly, onlyWorkspaceId, i) ==
  IF i > Len(groups.v) THEN <<>>
  ELSE LET uid == groups.v[i][1]
           val == groups.v[i][2]
           name == IF Has(workspaceIdToName, uid) /\ Truthy(Get(workspaceIdToName, uid))
                   THEN Get(workspaceIdToName, uid).v ELSE uid
           rest == NewGroups(groups, workspaceIdToName, hasOnly, onlyWorkspaceId, i + 1)
       IN IF hasOnly /\ uid # onlyWorkspaceId THEN rest
          ELSE << <<uid, Obj(<< <<"workspace_name", Str(name)>>, <<"value", val>> >>)>> >>
                 \o rest

\* the usage is plain JSON, which the clone of lines 172-174 copies value for value
augmentUsageGroupsWithNames(usage, workspaceIdToName, hasOnly, onlyWorkspaceId) ==
  [k \in 1..Len(usage) |->
     IF usage[k].t = "object" /\ Has(usage[k], "groups")
        /\ Get(usage[k], "groups").t = "object"
     THEN Set(usage[k], "groups",
              Obj(NewGroups(Get(usage[k], "groups"), workspaceIdToName,
                            hasOnly, onlyWorkspaceId, 1)))
     ELSE usage[k]]

getBillingUsageTool(platform, c) ==
  LET raw == BillingResponse(platform, c.billing)
  IN IF raw.t # "array"
     THEN IF raw.t = "object" /\ Has(raw, "error") THEN raw
          ELSE Obj(<< <<"error", Str("Unexpected billing usage response")>> >>)
     ELSE IF Len(raw.v) = 0
     THEN Obj(<< <<"error", Str("Unexpected billing usage response")>> >>)
     ELSE LET workspaceIdToName ==
                buildWorkspaceIdToName(platform, c, c.hasWorkspace, c.workspace)
              hasOnly == c.hasWorkspace /\ c.workspace # ""
                           /\ Len(workspaceIdToName.v) > 0
              onlyWorkspaceId == IF hasOnly THEN workspaceIdToName.v[1][1] ELSE ""
          IN Arr(augmentUsageGroupsWithNames(raw.v, workspaceIdToName,
                                             hasOnly, onlyWorkspaceId))

(***************************************************************************)
(* The inputs of the model.                                                *)
(***************************************************************************)
RECURSIVE Rep(_, _)
Rep(c, n) == IF n = 0 THEN "" ELSE c \o Rep(c, n - 1)

\* {"id":"a"}: the item of the spec's three-item scenario
ItemA == Obj(<< <<"id", Str("a")>> >>)
\* a run with one long, truncatable string
ItemLong == Obj(<< <<"id", Str("r1")>>, <<"name", Str(Rep("x", LongLen))>> >>)
\* a run without any string to truncate
ItemRigid ==
  Obj(<< <<"id", Num(7)>>, <<"total_tokens", BigInt(1234567890)>>,
         <<"data", Arr(<<Num(-12), Bool(TRUE), Null>>)>> >>)
\* llm runs of a thread: messages in inputs.messages, outputs.choices[0].message
\* and outputs.message; the content of one holds characters JSON escapes
RunEarly ==
  Obj(<< <<"start_time", Str("2024-01-01")>>,
         <<"inputs", Obj(<< <<"messages",
              Arr(<< Obj(<< <<"role", Str("user")>>,
                            <<"content", Str("say \"hi\"\n")>> >>) >>)>> >>)>>,
         <<"outputs", Obj(<< <<"choices",
              Arr(<< Obj(<< <<"message",
                    Obj(<< <<"role", Str("assistant")>>,
                           <<"content", Str(Rep("y", LongLen))>> >>)>> >>) >>)>> >>)>> >>)
RunLate ==
  Obj(<< <<"start_time", Str("2024-01-02")>>,
         <<"inputs", Obj(<< <<"messages", Arr(<< ItemA >>)>> >>)>>,
         <<"outputs", Obj(<< <<"message",
              Obj(<< <<"role", Str("assistant")>>, <<"content", Str("bye")>> >>)>> >>)>> >>)

ItemPool == {ItemA, ItemLong, ItemRigid}
RunPool == {RunEarly, RunLate}

\* {"id":"b"}: the second item of the spec's three-item scenario
ItemB == Obj(<< <<"id", Str("b")>> >>)
\* items that fit a page with its envelope one at a time, never two together
WideA == Obj(<< <<"id", Str("a")>>, <<"pad", Str(Rep("w", WideLen))>> >>)
WideB == Obj(<< <<"id", Str("b")>>, <<"pad", Str(Rep("v", WideLen))>> >>)
\* a run whose one string alone is longer than a small page
ItemXL ==
  Obj(<< <<"id", Str("a")>>,
         <<"name", Str(Rep("x", LongLen) \o Rep("x", LongLen) \o Rep("x", LongLen)
                         \o Rep("x", LongLen) \o Rep("x", LongLen))>> >>)
\* a run with a string shorter than the one of ItemLong
ItemMid == Obj(<< <<"id", Str("r2")>>, <<"name", Str(Rep("x", MidLen))>> >>)
\* a run larger than a small page with nothing to truncate: one long key
RigidKey ==
  LET k1 == Rep("k", RigidLen)
      k2 == k1 \o k1
      k4 == k2 \o k2
      k8 == k4 \o k4
      k16 == k8 \o k8
  IN k16 \o k16
ItemBigRigid == Obj(<< <<"id", Num(1)>>, <<RigidKey, Num(1)>> >>)

RECURSIVE SeqsUpTo(_, _)
SeqsUpTo(S, n) ==
  IF n = 0 THEN {<<>>}
  ELSE LET shorter == SeqsUpTo(S, n - 1)
       IN shorter \cup {Append(q, x) : q \in {r \in shorter : Len(r) = n - 1}, x \in S}

\* what a caller hands to the paginator, or what the platform holds for a
\* project or thread
ItemLists == SeqsUpTo(ItemPool, MaxItems) \cup SeqsUpTo(RunPool, MaxRuns)

\* the lists of the enforcement scenarios
EnforceLists ==
  SeqsUpTo({ItemA, ItemB}, MaxItems) \cup SeqsUpTo({WideA, WideB}, MaxItems)
    \cup {<<ItemXL>>, <<ItemMid, ItemLong>>, <<ItemBigRigid>>}
EnforcePageNumbers == 1..MaxItems
EnforceBudgets == {12, 95, 121, 192, 1501}

\* an experiment project as client.listProjects yields it
ProjectItem ==
  Obj(<< <<"id", Str("e1")>>, <<"name", Str("experiment-1")>>,
         <<"latency_p50", Num(1)>>, <<"total_cost", Num(5)>>,
         <<"extra", Obj(<< <<"deployment_id", Str("d1")>> >>)>> >>)
\* what the platform holds when a tool is called
ToolLists == SeqsUpTo({ProjectItem, RunLate}, MaxRuns)
ToolNames == {"list_prompts", "get_thread_history", "fetch_runs", "list_experiments"}
\* what getLangSmithClient and the methods of the client may throw
ClientThrows == {NoThrow, ThrownError("API key not found"), ThrownString("string error")}
SdkThrows == {NoThrow, ThrownError("Connection refused"), ThrownString("socket closed")}
\* the arguments and the environment of one tool call; the dataset selectors
\* belong to list_experiments alone
ToolCalls ==
  {c \in [tool : ToolNames, clientThrow : ClientThrows, sdkThrow : SdkThrows,
           hasId : BOOLEAN, hasName : BOOLEAN, limit : {1, 5}] :
     c.tool # "list_experiments" => (~c.hasId /\ ~c.hasName)}

PageNumbers == {-1, 0, 1, 2, MaxItems, MaxItems + 1}
Budgets == {12, 60, 150, 100000}
PreviewChars == {0, 5}
\* previewChars of a direct call of truncateStrings: negative, zero, shorter
\* than, equal to and longer than the strings of the items
TruncChars == {-1, 0, 1, 2, 5, LongLen - 1, LongLen, LongLen + 1}
\* the arguments of a tool call; Omitted stands for an argument left out
Omitted == [given |-> FALSE, v |-> 0]
Given(n) == [given |-> TRUE, v |-> n]
ToolPageNumbers == {Omitted, Given(2)}
ThreadPageNumbers == {0, 1, 2}
ToolBudgets == {Omitted, Given(100), Given(1000000)}
ToolPreviewChars == {Omitted, Given(5)}
ToolLimits == {Omitted, Given(2), Given(150)}

NoPage == Obj(<<>>)
NoCall == [op |-> "none", pageNumber |-> 0, maxCharsPerPage |-> 0,
           previewChars |-> 0, limit |-> 0]
NotListed == [called |-> FALSE, limit |-> 0]

Init ==
  /\ items \in ItemLists
  /\ pc = "idle"
  /\ call = NoCall
  /\ ret = NoPage
  /\ pages = <<>>
  /\ listed = NotListed

\* buildPagesByCharBudget on the list as the paginators hand it over: after
\* the preview pass
CallBuildPages(b, p) ==
  /\ pc = "idle"
  /\ pc' = "returned"
  /\ call' = [op |-> "buildPagesByCharBudget", pageNumber |-> 0,
              maxCharsPerPage |-> b, previewChars |-> p, limit |-> 0]
  /\ pages' = buildPagesByCharBudget(PreviewPass(items, p), b)
  /\ UNCHANGED <<items, ret, listed>>

\* truncateStrings on the caller's list as one array value
CallTruncateStrings(p) ==
  /\ pc = "idle"
  /\ pc' = "returned"
  /\ call' = [op |-> "truncateStrings", pageNumber |-> 0,
              maxCharsPerPage |-> 0, previewChars |-> p, limit |-> 0]
  /\ ret' = truncateStrings(Arr(items), p)
  /\ UNCHANGED <<items, pages, listed>>

\* paginateRuns running its preview pass in place, on the caller's list
CallPaginateRunsInPlace(n, b, p) ==
  /\ pc = "idle"
  /\ pc' = "returned"
  /\ call' = [op |-> "paginateRuns", pageNumber |-> n,
              maxCharsPerPage |-> b, previewChars |-> p, limit |-> 0]
  /\ ret' = paginateRuns(items, n, b, p)
  /\ items' = PreviewPass(items, p)
  /\ UNCHANGED <<pages, listed>>

CallPaginateRuns(n, b, p) ==
  /\ pc = "idle"
  /\ pc' = "returned"
  /\ call' = [op |-> "paginateRuns", pageNumber |-> n,
              maxCharsPerPage |-> b, previewChars |-> p, limit |-> 0]
  /\ ret' = paginateRuns(items, n, b, p)
  /\ UNCHANGED <<items, pages, listed>>

CallPaginateMessages(n, b, p) ==
  /\ pc = "idle"
  /\ pc' = "returned"
  /\ call' = [op |-> "paginateMessages", pageNumber |-> n,
              maxCharsPerPage |-> b, previewChars |-> p, limit |-> 0]
  /\ ret' = paginateMessages(items, n, b, p)
  /\ UNCHANGED <<items, pages, listed>>

\* fetch_runs: items are the runs the platform holds for the project
CallFetchRuns(n, b, p, l) ==
  /\ pc = "idle"
  /\ pc' = "returned"
  /\ call' = [op |-> "fetch_runs", pageNumber |-> n,
              maxCharsPerPage |-> b, previewChars |-> p, limit |-> l]
  /\ listed' = [called |-> TRUE,
                limit |-> cappedLimit(l.given, l.v)]
  /\ ret' = fetchRunsTool(items, n.given, n.v, b.given, b.v,
                          p.given, p.v, l.given, l.v)
  /\ UNCHANGED <<items, pages>>

\* get_thread_history: items are the llm runs the platform holds for the thread
CallGetThreadHistory(n, b, p) ==
  /\ pc = "idle"
  /\ pc' = "returned"
  /\ call' = [op |-> "get_thread_history", pageNumber |-> n,
              maxCharsPerPage |-> b, previewChars |-> p, limit |-> 0]
  /\ listed' = [called |-> TRUE, limit |-> LANGSMITH_LIST_RUNS_MAX_LIMIT]
  /\ ret' = getThreadHistoryTool(items, n, b.given, b.v, p.given, p.v)
  /\ UNCHANGED <<items, pages>>

\* the caller reads the result; the next call starts from scratch
Return ==
  /\ pc = "returned"
  /\ pc' = "idle"
  /\ call' = NoCall
  /\ ret' = NoPage
  /\ pages' = <<>>
  /\ listed' = NotListed
  /\ UNCHANGED items

Next ==
  \/ \E p \in TruncChars : CallTruncateStrings(p)
  \/ \E b \in Budgets, p \in PreviewChars : CallBuildPages(b, p)
  \/ \E n \in PageNumbers, b \in Budgets, p \in PreviewChars : CallPaginateRuns(n, b, p)
  \/ \E n \in PageNumbers, b \in Budgets, p \in PreviewChars : CallPaginateMessages(n, b, p)
  \/ \E n \in ToolPageNumbers, b \in ToolBudgets, p \in ToolPreviewChars, l \in ToolLimits :
       CallFetchRuns(n, b, p, l)
  \/ \E n \in ThreadPageNumbers, b \in ToolBudgets, p \in ToolPreviewChars :
       CallGetThreadHistory(n, b, p)
  \/ Return

Spec == Init /\ [][Next]_vars

\* the paginator on the lists of the enforcement scenarios
InitEnforce ==
  /\ items \in EnforceLists
  /\ pc = "idle"
  /\ call = NoCall
  /\ ret = NoPage
  /\ pages = <<>>
  /\ listed = NotListed

NextEnforce ==
  \/ \E n \in EnforcePageNumbers, b \in EnforceBudgets, p \in PreviewChars :
       CallPaginateRuns(n, b, p)
  \/ Return

SpecEnforce == InitEnforce /\ [][NextEnforce]_vars

(***************************************************************************)
(* Calls in flight together.  Each of the Slots is one call of             *)
(* paginateRuns with its arguments and its local variables (runsDict and   *)
(* pages of lines 196-203); the statements of the calls interleave freely, *)
(* which is more than JavaScript's run-to-completion allows.  Here pc,     *)
(* call, pages and ret hold one value per slot.                            *)
(***************************************************************************)
Slots == 1..MaxCalls
InterleaveLists == {<<ItemA, ItemLong>>, <<ItemLong, ItemA, ItemA>>}
InterleaveCalls ==
  [items : InterleaveLists, pageNumber : {1}, maxCharsPerPage : {60, 150},
   previewChars : {0}]
NoArgs == [items |-> <<>>, pageNumber |-> 0, maxCharsPerPage |-> 0, previewChars |-> 0]
NoLocals == [runsDict |-> <<>>, pages |-> <<>>]

InitInterleave ==
  /\ items = <<>>
  /\ listed = NotListed
  /\ pc = [s \in Slots |-> "idle"]
  /\ call = [s \in Slots |-> NoArgs]
  /\ pages = [s \in Slots |-> NoLocals]
  /\ ret = [s \in Slots |-> NoPage]

\* a caller enters paginateRuns with its arguments
Enter(s, args) ==
  /\ pc[s] = "idle"
  /\ pc' = [pc EXCEPT ![s] = "entered"]
  /\ call' = [call EXCEPT ![s] = args]
  /\ UNCHANGED <<items, listed, pages, ret>>

\* lines 196-200: the preview pass into the call's own runsDict
StepPreview(s) ==
  /\ pc[s] = "entered"
  /\ pc' = [pc EXCEPT ![s] = "previewed"]
  /\ pages' = [pages EXCEPT ![s].runsDict = PreviewPass(call[s].items, call[s].previewChars)]
  /\ UNCHANGED <<items, listed, call, ret>>

\* line 202: the call's own page list
StepPack(s) ==
  /\ pc[s] = "previewed"
  /\ pc' = [pc EXCEPT ![s] = "packed"]
  /\ pages' = [pages EXCEPT ![s].pages =
                  buildPagesByCharBudget(pages[s].runsDict, call[s].maxCharsPerPage)]
  /\ UNCHANGED <<items, listed, call, ret>>

\* StepSelect reading the page list of the first call, as if the module kept one
StepSelectShared(s) ==
  /\ pc[s] = "packed"
  /\ pc' = [pc EXCEPT ![s] = "returned"]
  /\ ret' = [ret EXCEPT ![s] =
               enforcePageCharBudget(
                 PageEnvelope("runs", SelectPage(pages[1].pages, call[s].pageNumber),
                              call[s].pageNumber, Len(pages[1].pages),
                              call[s].maxCharsPerPage, call[s].previewChars),
                 call[s].maxCharsPerPage, "runs")]
  /\ UNCHANGED <<items, listed, call, pages>>

\* lines 203-220: select the page, build the envelope, enforce and return
StepSelect(s) ==
  /\ pc[s] = "packed"
  /\ pc' = [pc EXCEPT ![s] = "returned"]
  /\ ret' = [ret EXCEPT ![s] =
               enforcePageCharBudget(
                 PageEnvelope("runs", SelectPage(pages[s].pages, call[s].pageNumber),
                              call[s].pageNumber, Len(pages[s].pages),
                              call[s].maxCharsPerPage, call[s].previewChars),
                 call[s].maxCharsPerPage, "runs")]
  /\ UNCHANGED <<items, listed, call, pages>>

\* the caller takes the page; the locals of the call are gone
Leave(s) ==
  /\ pc[s] = "returned"
  /\ pc' = [pc EXCEPT ![s] = "idle"]
  /\ call' = [call EXCEPT ![s] = NoArgs]
  /\ pages' = [pages EXCEPT ![s] = NoLocals]
  /\ ret' = [ret EXCEPT ![s] = NoPage]
  /\ UNCHANGED <<items, listed>>

NextInterleave ==
  \/ \E s \in Slots, args \in InterleaveCalls : Enter(s, args)
  \/ \E s \in Slots : StepPreview(s)
  \/ \E s \in Slots : StepPack(s)
  \/ \E s \in Slots : StepSelect(s)
  \/ \E s \in Slots : Leave(s)

SpecInterleave == InitInterleave /\ [][NextInterleave]_vars

(***************************************************************************)
(* Tool calls through the handlers                                         *)
(***************************************************************************)
InitTools ==
  /\ items \in ToolLists
  /\ pc = "idle"
  /\ call = NoCall
  /\ ret = NoPage
  /\ pages = <<>>
  /\ listed = NotListed

\* one call of a tool: the handler runs to its one return statement
CallTool(c) ==
  /\ pc = "idle"
  /\ pc' = "returned"
  /\ call' = c
  /\ ret' = Handler(items, c)
  /\ listed' = [called |-> c.clientThrow.kind = "none" /\ ToolOutcome(items, c).listed,
                limit |-> 0]
  /\ UNCHANGED <<items, pages>>

NextTools ==
  \/ \E c \in ToolCalls : CallTool(c)
  \/ Return

SpecTools == InitTools /\ [][NextTools]_vars

(***************************************************************************)
(* get_billing_usage against a platform of workspaces and usage metrics.   *)
(***************************************************************************)
UuidAlpha == "11111111-1111-1111-1111-111111111111"
UuidBeta == "22222222-2222-2222-2222-222222222222"
UuidUnknown == "33333333-3333-3333-3333-333333333333"
WsAlpha ==
  Obj(<< <<"id", Str(UuidAlpha)>>, <<"display_name", Str("Alpha")>>,
         <<"name", Str("alpha-ws")>> >>)
WsBeta == Obj(<< <<"id", Str(UuidBeta)>>, <<"name", Str("beta")>> >>)
MetricTraces ==
  Obj(<< <<"metric", Str("trace_count")>>,
         <<"groups", Obj(<< <<UuidAlpha, Num(100)>>, <<UuidBeta, Num(200)>> >>)>> >>)
MetricBetaOnly ==
  Obj(<< <<"metric", Str("long_lived")>>,
         <<"groups", Obj(<< <<UuidBeta, Num(5)>> >>)>> >>)
MetricNoGroups == Obj(<< <<"metric", Str("seats")>>, <<"groups", Null>> >>)

Platforms ==
  [workspaces : {<<WsAlpha, WsBeta>>, <<WsBeta, WsAlpha>>, <<WsAlpha>>},
   usage : {<<MetricTraces>>, <<MetricTraces, MetricBetaOnly>>,
            <<MetricNoGroups, MetricTraces>>}]

WorkspaceArgs ==
  {UuidAlpha, " " \o UuidBeta \o " ", UuidUnknown, "Alpha", "ALPHA", "beta", "nope", ""}

UsageCalls ==
  [op : {"get_billing_usage"},
   hasWorkspace : {TRUE},
   workspace : WorkspaceArgs,
   billing : {"array", "error", "object", "empty"},
   byId : {"ok", "error"},
   list : {"array", "wrapped", "error"}]
  \cup
  [op : {"get_billing_usage"},
   hasWorkspace : {FALSE},
   workspace : {""},
   billing : {"array", "error", "object", "empty"},
   byId : {"ok"},
   list : {"array", "wrapped", "error"}]

InitUsage ==
  /\ items \in Platforms
  /\ pc = "idle"
  /\ call = NoCall
  /\ ret = NoPage
  /\ pages = <<>>
  /\ listed = NotListed

\* one call of getBillingUsageTool, with the outcome of each REST request
CallGetBillingUsage(c) ==
  /\ pc = "idle"
  /\ pc' = "returned"
  /\ call' = c
  /\ ret' = getBillingUsageTool(items, c)
  /\ UNCHANGED <<items, pages, listed>>

NextUsage ==
  \/ \E c \in UsageCalls : CallGetBillingUsage(c)
  \/ Return

SpecUsage == InitUsage /\ [][NextUsage]_vars

(***************************************************************************)
(* Properties                                                              *)
(***************************************************************************)
CoreOps == {"paginateRuns", "paginateMessages"}
ToolOps == {"fetch_runs", "get_thread_history"}
CoreReturned == pc = "returned" /\ call.op \in CoreOps
BuildReturned == pc = "returned" /\ call.op = "buildPagesByCharBudget"
ToolReturned == pc = "returned" /\ call.op \in ToolOps

\* the key of the item list in the page of the operation called
ItemsKey == IF call.op \in {"paginateRuns", "fetch_runs"} THEN "runs" ELSE "result"

Marked(page) == Has(page, "_truncated") /\ Get(page, "_truncated") = Bool(TRUE)
NumField(page, k) == Get(page, k).v
PageItems(page) == Get(page, ItemsKey).v

RECURSIVE Flatten(_, _)
Flatten(pgs, i) == IF i > Len(pgs) THEN <<>> ELSE pgs[i] \o Flatten(pgs, i + 1)

RECURSIVE SumChars(_, _)
SumChars(xs, i) ==
  IF i > Len(xs) THEN 0 ELSE Len(stringify(xs[i])) + SumChars(xs, i + 1)

\* the list the paginator packs: the caller's items after the preview pass
Packed == PreviewPass(items, call.previewChars)

\* C1: budget respect. Every page returned by paginateRuns / paginateMessages
\* either serializes to at most maxCharsPerPage characters or carries
\* _truncated = true with a preview no longer than previewMax plus the suffix.
C1_BudgetRespect ==
  CoreReturned =>
    \/ pageOutputSize(ret) <= call.maxCharsPerPage
    \/ /\ Marked(ret)
       /\ Has(ret, "_truncated_preview")
       /\ Len(Get(ret, "_truncated_preview").v)
            <= previewMax(call.maxCharsPerPage) + Len(TruncatedSuffix)

\* C2: concatenation law. The pages of buildPagesByCharBudget, concatenated in
\* page order, are exactly the (preview-truncated) input list.
C2_Concatenation ==
  BuildReturned => Flatten(pages, 1) = Packed

C2_Witness ==
  /\ BuildReturned
  /\ call.previewChars > 0
  /\ Len(pages) >= 2
  /\ Packed # items
  /\ \E i \in 1..Len(pages) : Len(pages[i]) >= 2

C4_ReportsArgument ==
  CoreReturned =>
    /\ Has(ret, "max_chars_per_page")
    /\ Get(ret, "max_chars_per_page") = Num(call.maxCharsPerPage)

C4_Witness ==
  /\ CoreReturned
  /\ Marked(ret)
  /\ Get(ret, "max_chars_per_page") = Num(call.maxCharsPerPage)

\* the budget a tool hands to the paginator for the argument it was called with
ToolBudget ==
  Min2(IF call.maxCharsPerPage.given THEN call.maxCharsPerPage.v
       ELSE DefaultMaxCharsPerPage,
       MAX_CHARS_PER_PAGE_TRACE)

\* C5: fetch_runs and get_thread_history paginate with min(requested, 30000)
\* (25000 when omitted): every page they return reports that budget, which is
\* at most 30000.
C5_ToolBudgetCapped ==
  (ToolReturned /\ Has(ret, "max_chars_per_page")) =>
    /\ NumField(ret, "max_chars_per_page") = ToolBudget
    /\ NumField(ret, "max_chars_per_page") <= MAX_CHARS_PER_PAGE_TRACE

C5_Witness ==
  /\ ToolReturned
  /\ call.maxCharsPerPage.given
  /\ call.maxCharsPerPage.v > MAX_CHARS_PER_PAGE_TRACE
  /\ Has(ret, "max_chars_per_page")
  /\ NumField(ret, "max_chars_per_page") = MAX_CHARS_PER_PAGE_TRACE
  /\ Len(PageItems(ret)) > 0

\* C6: total_pages is 0 exactly when the item list is empty; for a non-empty
\* list it is at least 1 and at most the number of items.
C6_TotalPagesZeroIffEmpty ==
  /\ BuildReturned =>
       /\ (Len(pages) = 0) <=> (Len(items) = 0)
       /\ Len(pages) <= Len(items)
  /\ CoreReturned =>
       /\ (NumField(ret, "total_pages") = 0) <=> (Len(items) = 0)
       /\ NumField(ret, "total_pages") <= Len(items)

C6_Witness ==
  /\ BuildReturned
  /\ Len(items) = 1
  /\ Len(pages) = 1

\* C7: a page number below 1 or above total_pages (any page number when the
\* list is empty) yields a page with no items whose page_number is the number
\* requested, and no error.
C7_OutOfRangeIsData ==
  (CoreReturned
     /\ (call.pageNumber < 1 \/ call.pageNumber > NumField(ret, "total_pages"))) =>
    /\ Get(ret, ItemsKey) = Arr(<<>>)
    /\ Get(ret, "page_number") = Num(call.pageNumber)
    /\ ~Has(ret, "error")

C7_Witness ==
  /\ CoreReturned
  /\ Len(items) > 0
  /\ call.pageNumber > NumField(ret, "total_pages")
  /\ NumField(ret, "total_pages") >= 2
  /\ Get(ret, ItemsKey) = Arr(<<>>)

\* C8: total_pages of the returned page is the number of pages the full
\* (preview-truncated) list packs into, whatever page was requested and
\* whether the page returned is out of range, truncated to fit or degraded.
C8_TotalPagesOfFullList ==
  CoreReturned =>
    Get(ret, "total_pages")
      = Num(Len(buildPagesByCharBudget(Packed, call.maxCharsPerPage)))

C8_Witness ==
  /\ CoreReturned
  /\ Marked(ret)
  /\ NumField(ret, "total_pages") >= 2

\* C9: packing tie-break. No page is empty; a page of two or more items sums
\* to at most maxCharsPerPage; an item larger than the budget is kept, whole,
\* alone on its page.
C9_PackingTieBreak ==
  BuildReturned =>
    /\ \A i \in 1..Len(pages) :
         /\ Len(pages[i]) >= 1
         /\ Len(pages[i]) >= 2 => SumChars(pages[i], 1) <= call.maxCharsPerPage
         /\ \A j \in 1..Len(pages[i]) :
              runCharCount(pages[i][j]) > call.maxCharsPerPage => Len(pages[i]) = 1
    /\ \A k \in 1..Len(Packed) :
         runCharCount(Packed[k]) > call.maxCharsPerPage =>
           \E i \in 1..Len(pages) : pages[i] = <<Packed[k]>>

C9_Witness ==
  /\ BuildReturned
  /\ \E i \in 1..Len(pages) : Len(pages[i]) >= 2
  /\ \E i \in 1..Len(pages) :
       /\ Len(pages[i]) = 1
       /\ runCharCount(pages[i][1]) > call.maxCharsPerPage

\* every item of the packed list fits the budget on its own
EachFits == \A k \in 1..Len(Packed) : runCharCount(Packed[k]) <= call.maxCharsPerPage
\* the items of the packed list fit the budget together
AllFitTogether == SumChars(Packed, 1) <= call.maxCharsPerPage

\* C10 (as claimed): a non-empty list whose items each fit the budget is one
\* page holding the (preview-truncated) input in order.
C10_EachFitsOnePage ==
  (BuildReturned /\ Len(items) > 0 /\ EachFits) =>
    pages = <<Packed>>

\* C10 (amended): a non-empty list whose items fit the budget together (their
\* serialized sizes sum to at most maxCharsPerPage) is one page holding the
\* (preview-truncated) input in order; the paginators report total_pages 1 and
\* return that page as page 1 when its envelope fits the budget too.
C10_AllFitOnePage ==
  /\ (BuildReturned /\ Len(items) > 0 /\ AllFitTogether) => pages = <<Packed>>
  /\ (CoreReturned /\ Len(items) > 0 /\ AllFitTogether) =>
       /\ NumField(ret, "total_pages") = 1
       /\ (call.pageNumber = 1
           /\ pageOutputSize(PageEnvelope(ItemsKey, Packed, 1, 1,
                               call.maxCharsPerPage, call.previewChars))
                <= call.maxCharsPerPage)
          => PageItems(ret) = Packed

C10_Witness ==
  /\ CoreReturned
  /\ Len(items) = MaxItems
  /\ AllFitTogether
  /\ call.pageNumber = 1
  /\ call.previewChars > 0
  /\ Packed # items
  /\ PageItems(ret) = Packed

(***************************************************************************)
(* Scenarios of the packer and of budget enforcement                       *)
(***************************************************************************)
\* a value with every string leaf emptied: what is left is its structure
RECURSIVE Skeleton(_)
Skeleton(x) ==
  IF x.t = "string" THEN Str("")
  ELSE IF x.t = "object" THEN
    Obj([i \in 1..Len(x.v) |-> <<x.v[i][1], Skeleton(x.v[i][2])>>])
  ELSE IF x.t = "array" THEN Arr([i \in 1..Len(x.v) |-> Skeleton(x.v[i])])
  ELSE x

\* every packed item fits the budget alone, no two consecutive ones together
OnePerPageCase ==
  /\ CoreReturned
  /\ Len(Packed) > 0
  /\ call.pageNumber \in 1..Len(Packed)
  /\ \A i \in 1..Len(Packed) : runCharCount(Packed[i]) <= call.maxCharsPerPage
  /\ \A i \in 1..(Len(Packed) - 1) :
       runCharCount(Packed[i]) + runCharCount(Packed[i + 1]) > call.maxCharsPerPage

\* the envelope of the k-th packed item alone, as the paginator builds it
KthEnvelope ==
  PageEnvelope(ItemsKey, <<Packed[call.pageNumber]>>, call.pageNumber, Len(Packed),
               call.maxCharsPerPage, call.previewChars)

\* C11 as stated: when every item fits the budget alone and no two consecutive
\* items fit together, the page paginate returns for k holds exactly the k-th
\* item, with page_number k and total_pages the number of items.
C11_KthItemReturned ==
  OnePerPageCase =>
    /\ Len(buildPagesByCharBudget(Packed, call.maxCharsPerPage)) = Len(Packed)
    /\ PageItems(ret) = <<Packed[call.pageNumber]>>
    /\ NumField(ret, "page_number") = call.pageNumber
    /\ NumField(ret, "total_pages") = Len(Packed)

\* C11 amended: in that case packing gives one page per item and the page
\* returned for k has page_number k and total_pages the number of items; it
\* holds exactly the k-th item when the envelope around that item fits the
\* budget, and otherwise either the k-th item with strings truncated or no
\* item and the truncation marker.
C11_KthItemWhenEnvelopeFits ==
  OnePerPageCase =>
    /\ Len(buildPagesByCharBudget(Packed, call.maxCharsPerPage)) = Len(Packed)
    /\ NumField(ret, "page_number") = call.pageNumber
    /\ NumField(ret, "total_pages") = Len(Packed)
    /\ IF pageOutputSize(KthEnvelope) <= call.maxCharsPerPage
       THEN PageItems(ret) = <<Packed[call.pageNumber]>> /\ ~Marked(ret)
       ELSE \/ Marked(ret) /\ PageItems(ret) = <<>>
            \/ /\ ~Marked(ret)
               /\ Len(PageItems(ret)) = 1
               /\ Skeleton(PageItems(ret)[1]) = Skeleton(Packed[call.pageNumber])
               /\ PageItems(ret) # <<Packed[call.pageNumber]>>

\* three items, one per page, and the second page holds the second item whole
C11_Witness ==
  /\ OnePerPageCase
  /\ Len(Packed) = 3
  /\ call.pageNumber = 2
  /\ Packed[2] # Packed[1]
  /\ PageItems(ret) = <<Packed[2]>>
  /\ NumField(ret, "total_pages") = 3

\* the caller's list is one item that alone is larger than the budget, and
\* page 1 is asked for
OversizeCase ==
  /\ CoreReturned
  /\ Len(Packed) = 1
  /\ runCharCount(Packed[1]) > call.maxCharsPerPage
  /\ call.pageNumber = 1

\* C12 as stated: a single item larger than the budget makes exactly one page
\* holding that item, and page 1 comes back degraded: _truncated true, a
\* non-empty preview and an empty item list.
C12_OversizeDegrades ==
  OversizeCase =>
    /\ buildPagesByCharBudget(Packed, call.maxCharsPerPage) = << <<Packed[1]>> >>
    /\ Marked(ret)
    /\ Has(ret, "_truncated_preview")
    /\ Len(Get(ret, "_truncated_preview").v) > 0
    /\ PageItems(ret) = <<>>

\* C12 amended: a single item larger than the budget makes exactly one page
\* holding that item, and page 1 never holds the item whole: it is either
\* degraded (_truncated true, non-empty preview, empty item list) or, when the
\* search found a truncation length that fits, the item with its strings
\* truncated, within budget and unmarked.
C12_OversizeTruncatedOrDegraded ==
  OversizeCase =>
    /\ buildPagesByCharBudget(Packed, call.maxCharsPerPage) = << <<Packed[1]>> >>
    /\ NumField(ret, "total_pages") = 1
    /\ IF Marked(ret)
       THEN /\ Has(ret, "_truncated_preview")
            /\ Len(Get(ret, "_truncated_preview").v) > 0
            /\ PageItems(ret) = <<>>
       ELSE /\ Len(PageItems(ret)) = 1
            /\ PageItems(ret)[1] # Packed[1]
            /\ Skeleton(PageItems(ret)[1]) = Skeleton(Packed[1])
            /\ pageOutputSize(ret) <= call.maxCharsPerPage

\* an oversize item with nothing to truncate comes back as a degraded page
C12_Witness ==
  /\ OversizeCase
  /\ Skeleton(Packed[1]) = Packed[1]
  /\ Marked(ret)
  /\ PageItems(ret) = <<>>
  /\ Len(Get(ret, "_truncated_preview").v) > Len(TruncatedSuffix)

(***************************************************************************)
(* truncateStrings                                                         *)
(***************************************************************************)
TruncReturned == pc = "returned" /\ call.op = "truncateStrings"

\* the string leaves of a value, in the order of a depth-first walk
RECURSIVE StringLeaves(_)
RECURSIVE LeavesFrom(_, _)
StringLeaves(x) ==
  IF x.t = "string" THEN <<x.v>>
  ELSE IF x.t = "object" THEN LeavesFrom([i \in 1..Len(x.v) |-> x.v[i][2]], 1)
  ELSE IF x.t = "array" THEN LeavesFrom(x.v, 1)
  ELSE <<>>
LeavesFrom(xs, i) ==
  IF i > Len(xs) THEN <<>> ELSE StringLeaves(xs[i]) \o LeavesFrom(xs, i + 1)

\* C13: leaf rule of truncateStrings. For previewChars <= 0 the value comes
\* back unchanged; for previewChars = n > 0 a string of length L <= n is
\* unchanged and a longer one becomes its first n characters followed by
\* "~ (+<L - n> chars)".
C13_LeafRule ==
  TruncReturned =>
    LET n == call.previewChars
        before == StringLeaves(Arr(items))
        after == StringLeaves(ret)
    IN IF n <= 0 THEN ret = Arr(items)
       ELSE /\ Len(after) = Len(before)
            /\ \A i \in 1..Len(before) :
                 IF Len(before[i]) <= n THEN after[i] = before[i]
                 ELSE after[i] = SubSeq(before[i], 1, n) \o "~ (+"
                                   \o NumStr(Len(before[i]) - n) \o " chars)"

\* a call with n > 0 on a value holding a string longer than n and one not
C13_Witness ==
  /\ TruncReturned
  /\ call.previewChars > 0
  /\ \E i \in 1..Len(StringLeaves(Arr(items))) :
       Len(StringLeaves(Arr(items))[i]) > call.previewChars
  /\ \E i \in 1..Len(StringLeaves(Arr(items))) :
       Len(StringLeaves(Arr(items))[i]) <= call.previewChars

\* C14: truncateStrings preserves structure. For every previewChars the
\* result has the same keys in the same order at every level, sequences of
\* the same length and order, and the same numbers, booleans and nulls; only
\* string leaves differ.
C14_StructurePreserved ==
  TruncReturned => Skeleton(ret) = Skeleton(Arr(items))

\* a call that changed a string next to numbers, a boolean and a null
C14_Witness ==
  /\ TruncReturned
  /\ ret # Arr(items)
  /\ \E i \in 1..Len(items) : items[i] = ItemRigid

\* C15: idempotence. For n >= 0, truncating the result of truncateStrings
\* again at the same n changes nothing.
C15_Idempotent ==
  (TruncReturned /\ call.previewChars >= 0) =>
    truncateStrings(ret, call.previewChars) = ret

\* C16: monotonicity. For truncation lengths t1 < t2 of the search domain the
\* serialized size of the value truncated at t1 is at most its size truncated
\* at t2.
C16_Monotone ==
  (TruncReturned /\ call.previewChars \in SearchLow..SearchHigh) =>
    \A t2 \in TruncChars \cap SearchLow..SearchHigh :
      call.previewChars < t2 =>
        Len(stringify(ret)) <= Len(stringify(truncateStrings(Arr(items), t2)))

(***************************************************************************)
(* Budget enforcement on the selected page                                 *)
(***************************************************************************)
\* the items of the requested page and the envelope the paginator builds
\* around them, before enforcement
Selected == SelectPage(buildPagesByCharBudget(Packed, call.maxCharsPerPage), call.pageNumber)
Envelope ==
  PageEnvelope(ItemsKey, Selected, call.pageNumber,
               Len(buildPagesByCharBudget(Packed, call.maxCharsPerPage)),
               call.maxCharsPerPage, call.previewChars)

\* the envelope with every item truncated at the one length t
RebuiltAt(t) == Set(Envelope, ItemsKey, Arr(TruncateAll(Selected, t)))
FitsAt(t) == pageOutputSize(RebuiltAt(t)) <= call.maxCharsPerPage

RECURSIVE MaxLen(_, _)
MaxLen(strs, i) == IF i > Len(strs) THEN 0 ELSE Max2(Len(strs[i]), MaxLen(strs, i + 1))
\* the length of the longest string of the selected items
LongestString == MaxLen(StringLeaves(Arr(Selected)), 1)

\* the truncation lengths of the search domain that fit.  At every length from
\* the longest string on, truncateStrings changes nothing, so SearchHigh
\* stands for all of them.
FittingLengths ==
  {t \in (SearchLow..Min2(LongestString, SearchHigh)) \cup {SearchHigh} : FitsAt(t)}

\* the selected page holds items and its envelope is over budget
EnforcedCase ==
  /\ CoreReturned
  /\ Len(Selected) > 0
  /\ pageOutputSize(Envelope) > call.maxCharsPerPage

\* C17: when the envelope of the selected page is over budget and some
\* truncation length of [0, 100000] fits, the page returned is the envelope
\* rebuilt with the largest such length.
C17_LargestFittingLength ==
  (EnforcedCase /\ FittingLengths # {}) =>
    \E t \in FittingLengths :
      /\ \A u \in FittingLengths : u <= t
      /\ ret = RebuiltAt(t)

\* C18: a degraded page (no items, truncation marker) is returned only when
\* no truncation length of [0, 100000] fits; when one fits, the page returned
\* is unmarked and holds the items of the selected page.
C18_DegradedOnlyIfNoneFits ==
  EnforcedCase =>
    /\ (Marked(ret) /\ PageItems(ret) = <<>>) => FittingLengths = {}
    /\ FittingLengths # {} =>
         ~Marked(ret) /\ Len(PageItems(ret)) = Len(Selected)

\* the longest preview of a degraded page, before the suffix
PreviewBound ==
  Max2(PreviewFloor, (call.maxCharsPerPage - Len(TruncatedSuffix) - PreviewOverhead) \div 2)

\* C19: shape of the degraded page. Its item list is empty, _truncated is
\* true, the message is the fixed one, page_number, total_pages,
\* max_chars_per_page and preview_chars are those of the page before
\* degradation, and the preview is the first
\* max(100, (budget - suffix length - 1000) / 2) characters of that page
\* serialized, followed by the suffix: never empty, never longer than that
\* bound plus the suffix.
C19_DegradedShape ==
  (CoreReturned /\ Marked(ret)) =>
    LET jsonStr == stringify(Envelope)
        preview == Get(ret, "_truncated_preview").v
    IN /\ PageItems(ret) = <<>>
       /\ Get(ret, "_truncated_message")
            = Str("Page exceeded character budget; content truncated.")
       /\ \A k \in {"page_number", "total_pages", "max_chars_per_page", "preview_chars"} :
            Get(ret, k) = Get(Envelope, k)
       /\ preview = SubSeq(jsonStr, 1, Min2(Len(jsonStr), PreviewBound))
                      \o "\n~ (output truncated, exceeded max_chars_per_page)"
       /\ Len(preview) > 0
       /\ Len(preview) <= PreviewBound + Len(TruncatedSuffix)

\* a degraded page under a budget large enough for a preview beyond the floor
C19_Witness ==
  /\ CoreReturned
  /\ Marked(ret)
  /\ PreviewBound > 100
  /\ Len(Get(ret, "_truncated_preview").v) = PreviewBound + Len(TruncatedSuffix)

RunsReturned == pc = "returned" /\ call.op = "paginateRuns"

\* a page with the key from renamed to, in place
Rename(page, from, to) ==
  Obj([i \in 1..Len(page.v) |->
         IF page.v[i][1] = from THEN <<to, page.v[i][2]>> ELSE page.v[i]])

\* what paginateMessages returns for the arguments of the call of paginateRuns
MessagesPage ==
  paginateMessages(items, call.pageNumber, call.maxCharsPerPage, call.previewChars)

\* C21 as stated: for every (items, pageNumber, maxCharsPerPage, previewChars)
\* the output of paginateRuns with runs renamed to result is the output of
\* paginateMessages, which never has a runs field.
C21_SameUpToKey ==
  RunsReturned =>
    LET m == MessagesPage
    IN /\ Rename(ret, "runs", "result") = m
       /\ ~Has(m, "runs")

\* C21 amended: the two outputs always agree on page_number, total_pages,
\* max_chars_per_page and preview_chars, and the output of paginateMessages
\* never has a runs field; they are equal up to the renaming when the page is
\* empty or the envelope of paginateRuns fits with the two characters to spare
\* by which "result" is longer than "runs".
C21_SameUpToKeyWithSpare ==
  RunsReturned =>
    LET m == MessagesPage
        sel == Selected
        size == pageOutputSize(Envelope)
    IN /\ ~Has(m, "runs")
       /\ Has(m, "result")
       /\ \A k \in {"page_number", "total_pages", "max_chars_per_page", "preview_chars"} :
            Get(m, k) = Get(ret, k)
       /\ (Len(sel) = 0 \/ size + Len("result") - Len("runs") <= call.maxCharsPerPage)
           => Rename(ret, "runs", "result") = m

\* a page with items that fits with room to spare, the same from both
C21_Witness ==
  /\ RunsReturned
  /\ Len(Selected) > 0
  /\ pageOutputSize(Envelope) + 2 <= call.maxCharsPerPage
  /\ PageItems(ret) = Selected
  /\ Rename(ret, "runs", "result") = MessagesPage

(***************************************************************************)
(* Calls in flight together                                                *)
(***************************************************************************)
\* C22: statelessness under interleaving. Whatever other calls are in
\* flight, a call that has returned holds the page paginateRuns gives for its
\* own arguments alone, and two returned calls with equal arguments hold
\* equal pages.
C22_PageOfOwnArguments ==
  /\ \A s \in Slots :
       pc[s] = "returned" =>
         ret[s] = paginateRuns(call[s].items, call[s].pageNumber,
                               call[s].maxCharsPerPage, call[s].previewChars)
  /\ \A s, t \in Slots :
       (pc[s] = "returned" /\ pc[t] = "returned" /\ call[s] = call[t])
         => ret[s] = ret[t]

\* a call returned its page while a call with another list and another
\* budget was between its statements
C22_Witness ==
  \E s, t \in Slots :
    /\ pc[s] = "returned"
    /\ pc[t] = "packed"
    /\ call[s].items # call[t].items
    /\ call[s].maxCharsPerPage # call[t].maxCharsPerPage
    /\ Len(Get(ret[s], "runs").v) > 0

(***************************************************************************)
(* The tool layer                                                          *)
(***************************************************************************)
FetchRunsReturned == pc = "returned" /\ call.op = "fetch_runs"

\* C23: fetch_runs caps the fetch limit. The limit handed to client.listRuns
\* is min(limit, 100), or 100 when no limit is given, and never exceeds 100.
C23_ListRunsLimitCapped ==
  FetchRunsReturned =>
    /\ listed.called
    /\ listed.limit <= 100
    /\ listed.limit = IF call.limit.given THEN Min2(call.limit.v, 100) ELSE 100

\* fetch_runs asked for more than 100 runs and listRuns was asked for 100
C23_Witness ==
  /\ FetchRunsReturned
  /\ call.limit.given
  /\ call.limit.v > 100
  /\ listed.called
  /\ listed.limit = 100

(***************************************************************************)
(* Responses of the handlers                                               *)
(***************************************************************************)
ToolCalled == pc = "returned" /\ call.tool \in ToolNames

\* the text of the one content entry of a response
ResponseText(resp) == Get(Get(resp, "content").v[1], "text").v

\* sub occurs in str
Contains(str, sub) ==
  \E i \in 1..(Len(str) - Len(sub) + 1) : SubSeq(str, i, i + Len(sub) - 1) = sub

\* the tool functions that catch the failures of the client's methods
CatchingTools == {"list_prompts", "get_thread_history"}

\* the failure, if any, that reaches the catch of the handler
EscapesToHandler ==
  IF call.clientThrow.kind # "none" THEN call.clientThrow
  ELSE IF call.tool \in {"fetch_runs", "list_experiments"} THEN call.sdkThrow
  ELSE NoThrow

\* C24: two-level error protocol. Every tool call yields one response. A
\* failure outside the tool function's own try/catch (client construction,
\* or anything inside fetch_runs) gives isError = true and an error text
\* holding the thrown message, also for a thrown string; a failure caught
\* inside a tool function gives a normal response with an error field and
\* no isError. (The selectors of list_experiments are those C25 is about;
\* here they are valid.)
C24_TwoLevelErrors ==
  (ToolCalled /\ (call.tool = "list_experiments" => call.hasId # call.hasName)) =>
    /\ Has(ret, "content")
    /\ Len(Get(ret, "content").v) = 1
    /\ EscapesToHandler.kind # "none" =>
         /\ Has(ret, "isError")
         /\ Get(ret, "isError") = Bool(TRUE)
         /\ Contains(ResponseText(ret),
                     "\"error\":\"" \o MessageOf(EscapesToHandler))
    /\ (EscapesToHandler.kind = "none" /\ call.sdkThrow.kind # "none"
          /\ call.tool \in CatchingTools) =>
         /\ ~Has(ret, "isError")
         /\ Contains(ResponseText(ret), "{\"error\":\"")
         /\ Contains(ResponseText(ret), MessageOf(call.sdkThrow))
    /\ (EscapesToHandler.kind = "none" /\ call.sdkThrow.kind = "none") =>
         ~Has(ret, "isError")

\* fetch_runs failed inside the tool function with a thrown string and the
\* handler answered with isError
C24_Witness ==
  /\ ToolCalled
  /\ call.tool = "fetch_runs"
  /\ call.clientThrow.kind = "none"
  /\ call.sdkThrow.kind = "string"
  /\ Has(ret, "isError")
  /\ Contains(ResponseText(ret), call.sdkThrow.v)

ExperimentsCalled == pc = "returned" /\ call.tool = "list_experiments"

\* C25: list_experiments requires exactly one dataset selector. With neither
\* or both of reference_dataset_id and reference_dataset_name the response
\* has isError and names the problem, and client.listProjects is not called;
\* with exactly one the listing proceeds.
C25_ExactlyOneSelector ==
  (ExperimentsCalled /\ call.clientThrow.kind = "none") =>
    /\ (~call.hasId /\ ~call.hasName) =>
         /\ Has(ret, "isError")
         /\ Contains(ResponseText(ret), "Either 'reference_dataset_id' or")
         /\ ~listed.called
    /\ (call.hasId /\ call.hasName) =>
         /\ Has(ret, "isError")
         /\ Contains(ResponseText(ret), "Cannot provide both")
         /\ ~listed.called
    /\ (call.hasId # call.hasName) =>
         /\ listed.called
         /\ call.sdkThrow.kind = "none" =>
              /\ ~Has(ret, "isError")
              /\ Contains(ResponseText(ret), "{\"experiments\":[")

\* both selectors given: an error response and no listing, although the
\* platform holds a project
C25_Witness ==
  /\ ExperimentsCalled
  /\ call.clientThrow.kind = "none"
  /\ call.hasId /\ call.hasName
  /\ Len(items) > 0
  /\ Has(ret, "isError")
  /\ ~listed.called

\* C26: greedy maximality of packing. For any two consecutive pages of
\* buildPagesByCharBudget, the serialized sizes of the items of the first plus
\* the size of the first item of the second exceed maxCharsPerPage.
C26_GreedyMaximal ==
  BuildReturned =>
    \A i \in 1..(Len(pages) - 1) :
      SumChars(pages[i], 1) + runCharCount(pages[i + 1][1]) > call.maxCharsPerPage

C26_Witness ==
  /\ BuildReturned
  /\ Len(pages) >= 2
  /\ Len(pages[1]) >= 2
  /\ SumChars(pages[1], 1) <= call.maxCharsPerPage
  /\ SumChars(pages[1], 1) + runCharCount(pages[2][1]) > call.maxCharsPerPage

\* C27: budget enforcement is a no-op on a page that fits. When the envelope
\* of the selected page serializes to at most maxCharsPerPage, the page
\* returned is that envelope: its items are the packed (preview-truncated)
\* items of the page, cut no further, and it carries no truncation marker.
C27_NoOpWhenFits ==
  CoreReturned =>
    LET env == Envelope
        sel == Selected
    IN pageOutputSize(env) <= call.maxCharsPerPage =>
         /\ ret = env
         /\ PageItems(ret) = sel
         /\ ~Has(ret, "_truncated")
         /\ ~Has(ret, "_truncated_preview")

C27_Witness ==
  /\ CoreReturned
  /\ pageOutputSize(Envelope) <= call.maxCharsPerPage
  /\ NumField(ret, "total_pages") >= 2
  /\ call.previewChars > 0
  /\ Packed # items
  /\ Len(PageItems(ret)) >= 1
  /\ PageItems(ret) = Selected

\* the iterations of the search run on the envelope of the selected page
Probes == SearchProbes(Envelope, call.maxCharsPerPage, ItemsKey, SearchLow, SearchHigh)

\* the fitting probes of a search, in order
FittingProbes(probes) == SelectSeq(probes, LAMBDA pr : pr.fits)

\* C28: the binary search of enforcePageCharBudget terminates. It starts on
\* [0, 100000], every iteration leaves a strictly smaller interval inside the
\* one it tested, the interval after the last iteration is empty, at most 17
\* lengths are probed, and the page returned is the envelope rebuilt at the
\* last length that fitted, or the degraded page when none did.
C28_SearchTerminates ==
  EnforcedCase =>
    LET probes == Probes
        n == Len(probes)
        fitting == FittingProbes(probes)
    IN /\ n >= 1
       /\ n <= 17
       /\ probes[1].low = 0
       /\ probes[1].high = 100000
       /\ \A i \in 1..(n - 1) :
            /\ probes[i + 1].low >= probes[i].low
            /\ probes[i + 1].high <= probes[i].high
            /\ probes[i + 1].high - probes[i + 1].low < probes[i].high - probes[i].low
       /\ IF probes[n].fits THEN probes[n].mid + 1 > probes[n].high
                            ELSE probes[n].low > probes[n].mid - 1
       /\ IF Len(fitting) > 0
          THEN ret = RebuiltAt(fitting[Len(fitting)].mid)
          ELSE Marked(ret) /\ Get(ret, ItemsKey) = Arr(<<>>)

C28_Witness ==
  /\ EnforcedCase
  /\ Len(Probes) = 17
  /\ Len(FittingProbes(Probes)) > 0
  /\ ~Marked(ret)

ThreadReturned == pc = "returned" /\ call.op = "get_thread_history"

\* the list get_thread_history hands to paginateMessages
Handed ==
  LET runs == ListRuns(items, LANGSMITH_LIST_RUNS_MAX_LIMIT)
  IN AllMessages(SortRuns(runs, Len(runs)), 1)

\* the day a run started as a number (20240102 for "2024-01-02"), 0 when the
\* run has no start_time
RECURSIVE DigitsValue(_, _, _)
DigitsValue(str, i, acc) ==
  IF i > Len(str) THEN acc
  ELSE IF SubSeq(str, i, i) = "-" THEN DigitsValue(str, i + 1, acc)
  ELSE DigitsValue(str, i + 1, 10 * acc + (CharRank(SubSeq(str, i, i)) - 2))
TimeOf(run) == DigitsValue(StartTime(run), 1, 0)

\* the input messages of a run and its output message, as the fixtures hold them
InputMessagesOf(run) == Get(Get(run, "inputs"), "messages").v
OutputMessageOf(run) ==
  LET outputs == Get(run, "outputs")
  IN IF Has(outputs, "choices") THEN Get(Get(outputs, "choices").v[1], "message")
     ELSE Get(outputs, "message")
IsRun(x) == Has(x, "start_time") /\ Has(x, "inputs") /\ Has(x, "outputs")
IsMessageOf(m, run) ==
  \/ m = OutputMessageOf(run)
  \/ \E k \in 1..Len(InputMessagesOf(run)) : InputMessagesOf(run)[k] = m

\* C29: get_thread_history paginates messages in chronological order. In the
\* list handed to the paginator every message of a run that started earlier
\* precedes every message of a run that started later, the messages of each
\* run stand together with its input messages before its output message, and
\* the page returned is the page of that list.
C29_Chronological ==
  (ThreadReturned /\ \A i \in 1..Len(items) : IsRun(items[i])) =>
    LET msgs == Handed
        budget == ToolBudget
        preview == IF call.previewChars.given THEN call.previewChars.v
                   ELSE DefaultPreviewChars
    IN /\ \A i, j \in 1..Len(items) :
            TimeOf(items[i]) < TimeOf(items[j]) =>
              \A p, q \in 1..Len(msgs) :
                (IsMessageOf(msgs[p], items[i]) /\ IsMessageOf(msgs[q], items[j]))
                  => p < q
       /\ \A i \in 1..Len(items) :
            \E p \in 1..Len(msgs) :
              LET block == InputMessagesOf(items[i]) \o <<OutputMessageOf(items[i])>>
              IN /\ p + Len(block) - 1 <= Len(msgs)
                 /\ SubSeq(msgs, p, p + Len(block) - 1) = block
       /\ Len(msgs) > 0 =>
            ret = paginateMessages(msgs, call.pageNumber, budget, preview)

C29_Witness ==
  /\ ThreadReturned
  /\ items = <<RunLate, RunEarly>>
  /\ Len(Handed) = 4
  /\ Handed[1] = InputMessagesOf(RunEarly)[1]
  /\ Handed[4] = OutputMessageOf(RunLate)
  /\ Has(ret, "result")
  /\ Len(Get(ret, "result").v) > 0

UsageReturned == pc = "returned" /\ call.op = "get_billing_usage" /\ ret.t = "array"
WorkspaceSupplied == call.hasWorkspace /\ call.workspace # ""

\* the workspace ids under which the page returned reports usage
RECURSIVE ReportedIds(_, _)
ReportedIds(usage, k) ==
  IF k > Len(usage) THEN {}
  ELSE (IF Has(usage[k], "groups") /\ Get(usage[k], "groups").t = "object"
        THEN {Get(usage[k], "groups").v[i][1] : i \in 1..Len(Get(usage[k], "groups").v)}
        ELSE {})
       \cup ReportedIds(usage, k + 1)

\* the ids of the workspaces of the platform that the argument names, by id or
\* by name up to case and surrounding spaces
NamedIds ==
  {Get(items.workspaces[i], "id").v : i \in
     {i \in 1..Len(items.workspaces) :
        LET w == items.workspaces[i]
            arg == Trim(call.workspace)
        IN \/ Get(w, "id").v = arg
           \/ toLowerCase(NameOf(w, Get(w, "id").v)) = toLowerCase(arg)}}

\* C30: workspace filter of get_billing_usage. Whenever a workspace argument
\* is supplied, the groups of every metric returned hold entries of that one
\* workspace only: no id of another workspace is reported.
C30_OnlyThatWorkspace ==
  (UsageReturned /\ WorkspaceSupplied) =>
    LET reported == ReportedIds(ret.v, 1)
    IN /\ Cardinality(reported) <= 1
       /\ reported \subseteq NamedIds
====
